---- MODULE Spec2Model ----
(***************************************************************************)
(* Model of the DuraGraph mock worker (src/tests/e2e/mock_worker).         *)
(*                                                                         *)
(* One Worker instance runs inside a single asyncio event loop: the main   *)
(* coroutine (start / stop), the heartbeat task, the poll task and one     *)
(* task per run handed out by the control plane.  A coroutine runs         *)
(* without interruption from one await to the next, so every action below  *)
(* is the code between two awaits of one coroutine.  The control plane is  *)
(* the environment: each of its responses is drawn from the outcomes the   *)
(* HTTP client can produce.                                                *)
(***************************************************************************)
EXTENDS Integers, Sequences, FiniteSets, TLC

\* config.max_concurrent_runs (an environment setting, default 5): the
\* configuration the model is checked with.
MaxConcurrentRuns == 2

\* Number of tasks the control plane hands out in one behaviour.
MaxTasks == 3

Tasks == 1..MaxTasks

\* Number of calls of execute_run made in one behaviour of the executor.
MaxInvocations == 2

\* Calls of the executor's pure functions: tokens of a condition string,
\* outgoing edges of a node, pieces of a template.
MaxCondTokens == 4
MaxEdges == 2
MaxPieces == 2

\* The emitter on its own: listeners registered, events emitted.
MaxListeners == 2
MaxEmits == 3
MaxPending == 2

\* Graph ids a task may carry: three registered graphs, one per way a run can
\* end, and an id that is not in the GRAPHS registry.
GraphIds == {"simple_echo", "human_interrupt", "failure", "no_such_graph"}

\* What one HTTP call of the httpx client can come to: a 2xx response, a 404,
\* another error status (raise_for_status raises HTTPStatusError), or a
\* transport failure / timeout (httpx.RequestError).
HttpOutcomes == {"ok", "not_found", "http_error", "transport_error"}

\* The registration response may also be a 2xx whose body response.json()
\* cannot decode.
RegisterOutcomes == HttpOutcomes \cup {"bad_body"}

VARIABLES
    mainPc,        \* position of the coroutine that calls start() and stop()
    running,       \* Worker._running
    registered,    \* WorkerState.registered
    regError,      \* the error that made the registration call raise, if any
    status,        \* WorkerState.status
    active_runs,   \* keys of WorkerState.active_runs
    total_runs,    \* WorkerState.total_runs
    failed_runs,   \* WorkerState.failed_runs
    hbPc,          \* position of the heartbeat task
    hbCancel,      \* heartbeat task: cancel() has been called on it
    pollPc,        \* position of the poll task
    pollCancel,    \* poll task: cancel() has been called on it
    max_tasks,     \* "max_tasks" of the poll request in flight
    clientClosed,  \* Worker._client has been closed
    taskPc,        \* position of each run task (_execute_run)
    taskRun,       \* run_id carried by each task
    taskGraph,     \* graph_id carried by each task, once execute_run read it
    reports,       \* per task: the status posts made for it, in order
    eventsSent,    \* per task: the event log posted for it (<<>> if none)
    graphs,        \* the Graph objects of graphs.GRAPHS, by key
    heap,          \* objects of the executor that are shared by reference
    ex,            \* the execute_run call in progress or last ended
    invocations,   \* number of execute_run calls made
    dispatched,    \* the task whose dispatch made the call, if a worker did
    probe,         \* the last call of one of the executor's pure functions
    emitter,       \* an EventEmitter with listeners, and the calls it made
    posts          \* the outcomes that the posts of the run tasks have had

vars == <<mainPc, running, registered, regError, status, active_runs,
          total_runs, failed_runs, hbPc, hbCancel, pollPc, pollCancel,
          max_tasks, clientClosed, taskPc, taskRun, taskGraph, reports,
          eventsSent, graphs, heap, ex, invocations, dispatched, probe,
          emitter, posts>>

mainVars == <<mainPc, running, registered, regError, clientClosed>>
stateVars == <<status, active_runs, total_runs, failed_runs>>
hbVars == <<hbPc, hbCancel>>
pollVars == <<pollPc, pollCancel, max_tasks>>
taskVars == <<taskPc, taskRun, taskGraph, reports, eventsSent>>
workerVars == <<mainVars, stateVars, hbVars, pollVars, taskVars>>
execVars == <<graphs, heap, ex, invocations, dispatched, probe, emitter,
              posts>>

----------------------------------------------------------------------------
(* Graph definitions (graphs.py).  A Node is [id, type, config], an Edge   *)
(* is [source, target, condition] and a Graph is [nodes, edges,            *)
(* entry_point]; a config is a dict, written as a record that has exactly  *)
(* the keys the source gives it.  Graph's id, name and description, which  *)
(* the executor never reads, are left out.  A response template is the     *)
(* sequence of its pieces: <<"text", s>> for literal text and <<"key", k>> *)
(* for the placeholder {k}.                                                *)

None == "None"
NoCondition == <<>>
END == "__end__"

Node(id, type, config) == [id |-> id, type |-> type, config |-> config]
Edge(source, target) ==
    [source |-> source, target |-> target, condition |-> NoCondition]
CondEdge(source, target, condition) ==
    [source |-> source, target |-> target, condition |-> condition]

\* Node(id=..., type=...) without a config: the dataclass default, an empty
\* dict (here a function with no keys).
NoConfig == [k \in {} |-> None]

StartNode == Node("__start__", "start", NoConfig)
EndNode == Node(END, "end", NoConfig)

SIMPLE_ECHO ==
    [nodes |-> << StartNode,
                  Node("echo", "llm",
                       [response_template |->
                            << <<"text", "Echo: ">>, <<"key", "message">> >>,
                        simulated_tokens |-> [input |-> 10, output |-> 15]]),
                  EndNode >>,
     edges |-> << Edge("__start__", "echo"), Edge("echo", END) >>,
     entry_point |-> "echo"]

MULTI_STEP ==
    [nodes |-> << StartNode,
                  Node("classify", "llm",
                       [response_template |->
                            << <<"text", "Classified intent: general_inquiry">> >>,
                        output_key |-> "intent",
                        output_value |-> "general_inquiry",
                        simulated_tokens |-> [input |-> 50, output |-> 20]]),
                  Node("process", "llm",
                       [response_template |->
                            << <<"text", "Processing intent: ">>,
                               <<"key", "intent">> >>,
                        output_key |-> "processed",
                        output_value |-> TRUE,
                        simulated_tokens |-> [input |-> 80, output |-> 40]]),
                  Node("respond", "llm",
                       [response_template |->
                            << <<"text", "Based on your inquiry, here is my response: ">>,
                               <<"key", "message">> >>,
                        simulated_tokens |-> [input |-> 120, output |-> 100]]),
                  EndNode >>,
     edges |-> << Edge("__start__", "classify"), Edge("classify", "process"),
                  Edge("process", "respond"), Edge("respond", END) >>,
     entry_point |-> "classify"]

BRANCHING ==
    [nodes |-> << StartNode,
                  Node("router", "router",
                       [route_key |-> "route",
                        routes |-> [a |-> "path_a", b |-> "path_b"],
                        default |-> "path_a"]),
                  Node("path_a", "llm",
                       [response_template |->
                            << <<"text", "Took path A for: ">>,
                               <<"key", "message">> >>,
                        output_key |-> "path_taken",
                        output_value |-> "a",
                        simulated_tokens |-> [input |-> 30, output |-> 25]]),
                  Node("path_b", "llm",
                       [response_template |->
                            << <<"text", "Took path B for: ">>,
                               <<"key", "message">> >>,
                        output_key |-> "path_taken",
                        output_value |-> "b",
                        simulated_tokens |-> [input |-> 30, output |-> 25]]),
                  EndNode >>,
     edges |-> << Edge("__start__", "router"),
                  CondEdge("router", "path_a",
                           <<"route", " ", "==", " ", "'", "a", "'">>),
                  CondEdge("router", "path_b",
                           <<"route", " ", "==", " ", "'", "b", "'">>),
                  Edge("path_a", END), Edge("path_b", END) >>,
     entry_point |-> "router"]

TOOL_CALLING ==
    [nodes |-> << StartNode,
                  Node("agent_think", "llm",
                       [response_template |->
                            << <<"text", "I need to search for information about: ">>,
                               <<"key", "message">> >>,
                        tool_calls |-> << [name |-> "search"] >>,
                        simulated_tokens |-> [input |-> 60, output |-> 40]]),
                  Node("execute_tools", "tool",
                       [tools |-> [search |-> "search results",
                                   calculator |-> "42"]]),
                  Node("agent_respond", "llm",
                       [response_template |->
                            << <<"text", "Based on my search, I found: ">>,
                               <<"key", "tool_results">>,
                               <<"text", ". Here's my answer to '">>,
                               <<"key", "message">>, <<"text", "'.">> >>,
                        simulated_tokens |-> [input |-> 150, output |-> 80]]),
                  EndNode >>,
     edges |-> << Edge("__start__", "agent_think"),
                  Edge("agent_think", "execute_tools"),
                  Edge("execute_tools", "agent_respond"),
                  Edge("agent_respond", END) >>,
     entry_point |-> "agent_think"]

HUMAN_INTERRUPT ==
    [nodes |-> << StartNode,
                  Node("draft", "llm",
                       [response_template |->
                            << <<"text", "Draft response: I've prepared an answer to '">>,
                               <<"key", "message">>, <<"text", "'">> >>,
                        output_key |-> "draft",
                        output_value |-> "Prepared draft response",
                        simulated_tokens |-> [input |-> 50, output |-> 60]]),
                  Node("human_review", "human",
                       [interrupt |-> TRUE,
                        prompt |-> "Please review and approve this draft response",
                        required_fields |-> <<"approved">>]),
                  Node("finalize", "llm",
                       [response_template |->
                            << <<"text", "Final approved response: ">>,
                               <<"key", "draft">> >>,
                        simulated_tokens |-> [input |-> 80, output |-> 50]]),
                  EndNode >>,
     edges |-> << Edge("__start__", "draft"), Edge("draft", "human_review"),
                  Edge("human_review", "finalize"), Edge("finalize", END) >>,
     entry_point |-> "draft"]

LONG_RUNNING ==
    [nodes |-> << StartNode,
                  Node("init", "llm",
                       [response_template |->
                            << <<"text", "Initializing long process for: ">>,
                               <<"key", "message">> >>,
                        output_key |-> "iteration",
                        output_value |-> 0,
                        simulated_tokens |-> [input |-> 20, output |-> 15]]),
                  Node("loop", "llm",
                       [response_template |->
                            << <<"text", "Processing iteration ">>,
                               <<"key", "iteration">> >>,
                        loop_count |-> 5,
                        loop_delay_ms |-> 500,
                        simulated_tokens |-> [input |-> 30, output |-> 20]]),
                  Node("complete", "llm",
                       [response_template |->
                            << <<"text", "Completed all iterations. Final result for: ">>,
                               <<"key", "message">> >>,
                        simulated_tokens |-> [input |-> 40, output |-> 30]]),
                  EndNode >>,
     edges |-> << Edge("__start__", "init"), Edge("init", "loop"),
                  Edge("loop", "complete"), Edge("complete", END) >>,
     entry_point |-> "init"]

FAILURE ==
    [nodes |-> << StartNode,
                  Node("start_ok", "llm",
                       [response_template |->
                            << <<"text", "Starting process...">> >>,
                        simulated_tokens |-> [input |-> 10, output |-> 10]]),
                  Node("fail_here", "llm",
                       [should_fail |-> TRUE,
                        error_message |->
                            "Simulated failure: LLM rate limit exceeded"]),
                  Node("never_reached", "llm",
                       [response_template |->
                            << <<"text", "This should never execute">> >>]),
                  EndNode >>,
     edges |-> << Edge("__start__", "start_ok"), Edge("start_ok", "fail_here"),
                  Edge("fail_here", "never_reached"),
                  Edge("never_reached", END) >>,
     entry_point |-> "start_ok"]

\* The GRAPHS dict of graphs.py.
RegisteredGraphs ==
    [simple_echo |-> SIMPLE_ECHO, multi_step |-> MULTI_STEP,
     branching |-> BRANCHING, tool_calling |-> TOOL_CALLING,
     human_interrupt |-> HUMAN_INTERRUPT, long_running |-> LONG_RUNNING,
     failure |-> FAILURE]

\* Graphs a caller makes with Graph(...) and puts into GRAPHS.  The dataclass
\* takes whatever it is given: it has no __post_init__ and checks nothing.
\* START_ENTRY leaves entry_point at its default "__start__".
START_ENTRY ==
    [nodes |-> << StartNode,
                  Node("work", "llm",
                       [response_template |-> << <<"text", "Working">> >>]),
                  EndNode >>,
     edges |-> << Edge("__start__", "work"), Edge("work", END) >>,
     entry_point |-> "__start__"]

\* An edge whose target is not a declared node.
DANGLING_EDGE ==
    [nodes |-> << StartNode,
                  Node("work", "llm",
                       [response_template |-> << <<"text", "Working">> >>]),
                  EndNode >>,
     edges |-> << Edge("__start__", "work"), Edge("work", "ghost") >>,
     entry_point |-> "work"]

\* An edge whose target is the empty string.
EMPTY_TARGET ==
    [nodes |-> << StartNode,
                  Node("work", "llm",
                       [response_template |-> << <<"text", "Working">> >>]),
                  EndNode >>,
     edges |-> << Edge("__start__", "work"), Edge("work", "") >>,
     entry_point |-> "work"]

\* An entry_point that is not a declared node.
MISSING_ENTRY ==
    [nodes |-> << StartNode,
                  Node("work", "llm",
                       [response_template |-> << <<"text", "Working">> >>]),
                  EndNode >>,
     edges |-> << Edge("__start__", "work"), Edge("work", END) >>,
     entry_point |-> "missing"]

\* A router with routes and no default; its first declared edge leads to
\* path_b.
ROUTER_NO_DEFAULT ==
    [nodes |-> << StartNode,
                  Node("router", "router",
                       [route_key |-> "route",
                        routes |-> [a |-> "path_a"]]),
                  Node("path_a", "llm",
                       [response_template |-> << <<"text", "A">> >>]),
                  Node("path_b", "llm",
                       [response_template |-> << <<"text", "B">> >>]),
                  EndNode >>,
     edges |-> << Edge("__start__", "router"), Edge("router", "path_b"),
                  Edge("router", "path_a"),
                  Edge("path_a", END), Edge("path_b", END) >>,
     entry_point |-> "router"]

\* A router whose targets are given by its routes only: no edge leaves it.
ROUTER_NO_EDGES ==
    [nodes |-> << StartNode,
                  Node("router", "router",
                       [route_key |-> "route",
                        routes |-> [a |-> "path_a", b |-> "path_b"],
                        default |-> "path_a"]),
                  Node("path_a", "llm",
                       [response_template |-> << <<"text", "A">> >>]),
                  Node("path_b", "llm",
                       [response_template |-> << <<"text", "B">> >>]),
                  EndNode >>,
     edges |-> << Edge("__start__", "router"),
                  Edge("path_a", END), Edge("path_b", END) >>,
     entry_point |-> "router"]

ConstructedGraphs ==
    [start_entry |-> START_ENTRY, dangling_edge |-> DANGLING_EDGE,
     empty_target |-> EMPTY_TARGET,
     missing_entry |-> MISSING_ENTRY, router_no_default |-> ROUTER_NO_DEFAULT,
     router_no_edges |-> ROUTER_NO_EDGES]

\* Every Graph object of the process, by its key in GRAPHS.
AllGraphs == RegisteredGraphs @@ ConstructedGraphs

\* Graph ids a run may name; the last one is not a key of GRAPHS.
RunGraphIds == DOMAIN AllGraphs \cup {"no_such_graph"}

\* The declared node ids of a graph, and the node with a given id
\* (GraphExecutor.__init__: self._nodes = {n.id: n for n in graph.nodes};
\* ids are unique in every graph here).
NodeIds(graph) == {graph.nodes[i].id : i \in 1..Len(graph.nodes)}
NodeIndex(graph, id) ==
    CHOOSE i \in 1..Len(graph.nodes) : graph.nodes[i].id = id
NodeOf(graph, id) == graph.nodes[NodeIndex(graph, id)]

\* self._edges.get(node_id, []): the edges leaving a node, in declaration
\* order.
OutgoingEdges(graph, id) ==
    SelectSeq(graph.edges, LAMBDA e : e.source = id)

\* dict.get(key, default) and "key in dict" for a config or a state dict.
Has(d, k) == k \in DOMAIN d
Get(d, k, default) == IF k \in DOMAIN d THEN d[k] ELSE default

\* d[k] = v, and d.update(other).
Put(d, k, v) == [x \in DOMAIN d \cup {k} |-> IF x = k THEN v ELSE d[x]]
Update(d, other) ==
    [x \in DOMAIN d \cup DOMAIN other |->
        IF x \in DOMAIN other THEN other[x] ELSE d[x]]

\* Python truth of a state or config value that is a bool or is missing.
Truthy(d, k) == k \in DOMAIN d /\ d[k] = TRUE

----------------------------------------------------------------------------
(* The graph executor (executor.py).  Python objects that are shared by    *)
(* reference live in `heap`, a sequence of objects whose index is the      *)
(* object's address: the values dict, the messages list and the            *)
(* nodes_executed list of the ExecutionState, and the copies a checkpoint  *)
(* holds.  Everything stored inside them is never changed in place by the  *)
(* executor (a state key is only ever bound anew), so it is kept by value. *)

\* config.mock_token_count.
TokenCount == 100

\* An Event of the emitter's log (run_id and timestamp left out).
Event(type, node_id, data) ==
    [event |-> type, node_id |-> node_id, data |-> data]
NoData == [k \in {} |-> None]

\* EventEmitter.llm_end: the llm.end event and the token counts it carries.
LlmEndBug(node_id, tokens_input, tokens_output) ==
    Event("llm.end", node_id,
          [tokens |-> [input |-> tokens_input, output |-> tokens_output,
                       total |-> tokens_input]])
LlmEnd(node_id, tokens_input, tokens_output) ==
    Event("llm.end", node_id,
          [tokens |-> [input |-> tokens_input, output |-> tokens_output,
                       total |-> tokens_input + tokens_output]])

\* EventEmitter.get_token_summary: the loop over self.events, which adds
\* tokens.get(field, 0) for the events of type llm.end, and the dict made
\* of the two sums.
RECURSIVE SumTokens(_, _)
SumTokens(events, field) ==
    IF events = <<>> THEN 0
    ELSE (IF Head(events).event = "llm.end"
          THEN Get(Get(Head(events).data, "tokens", NoData), field, 0)
          ELSE 0)
         + SumTokens(Tail(events), field)
GetTokenSummary(events) ==
    [input |-> SumTokens(events, "input"),
     output |-> SumTokens(events, "output"),
     total |-> SumTokens(events, "input") + SumTokens(events, "output")]

\* The keys of the state values in the order they enter the dict in the
\* runs and calls modelled here: the caller's input keys as the caller
\* writes them, then the keys the nodes write.  StringKeys are those whose
\* values are strings: str() of a string is the string itself, so it enters
\* a rendered text as text; every other value enters as <<"str", v>>.
KeyOrder ==
    << "message", "note", "route", "_human_approved", "intent", "draft",
       "iteration", "path_taken", "last_response", "processed",
       "pending_tool_calls", "tool_results", "_loop_iteration" >>
StringKeys == {"message", "note", "route", "intent", "draft", "path_taken"}

\* state.values.items(): the (key, value) pairs in insertion order.
Items(vals) ==
    LET keys == SelectSeq(KeyOrder, LAMBDA k : k \in DOMAIN vals)
    IN [i \in 1..Len(keys) |-> <<keys[i], vals[keys[i]]>>]

\* The template loop of _execute_llm_node,
\*   for key, value in state.values.items():
\*       response = response.replace("{key}", str(value))
\* one key after the other on the text so far, so that a "{key}" brought in
\* by an earlier value is replaced too.  A placeholder of a key that is not
\* in the state stays.
RECURSIVE Render(_, _)
Render(template, items) ==
    IF items = <<>> THEN template
    ELSE LET k == items[1][1]
             form == IF k \in StringKeys THEN <<"text", items[1][2]>>
                     ELSE <<"str", items[1][2]>>
         IN Render([i \in 1..Len(template) |->
                       IF \/ template[i] = <<"key", k>>
                          \/ template[i] = <<"text", "{" \o k \o "}">>
                       THEN form ELSE template[i]],
                   Tail(items))

\* What _execute_node's type dispatch hands back: the executor's record and
\* the heap after the node's effects, and the exception it raised, if any.
Returned(e, h) ==
    [raised |-> "none", message |-> "", ex |-> e, heap |-> h]
Raised(kind, message, e, h) ==
    [raised |-> kind, message |-> message, ex |-> e, heap |-> h]

\* _execute_llm_node.
ExecuteLlmNodeBug(e, h, node) == Returned(e, h)
ExecuteLlmNode(e, h, node) ==
    LET config == node.config IN
    IF Truthy(config, "should_fail")
    THEN Raised("ExecutionError",
                Get(config, "error_message", "Simulated LLM failure"),
                e, h)
    ELSE
      LET vals0 == h[e.values]
          response ==
              Render(Get(config, "response_template",
                         << <<"text", "Mock response">> >>), Items(vals0))
          tokens == Get(config, "simulated_tokens", NoData)
          tokens_input == Get(tokens, "input", TokenCount)
          tokens_output == Get(tokens, "output", TokenCount \div 2)
          vals1 == IF Has(config, "output_key")
                   THEN Put(vals0, config.output_key,
                            Get(config, "output_value", response))
                   ELSE vals0
          vals2 == Put(vals1, "last_response", response)
          vals3 == IF Has(config, "tool_calls")
                   THEN Put(vals2, "pending_tool_calls", config.tool_calls)
                   ELSE vals2
          iteration == Get(vals3, "_loop_iteration", 0)
          vals4 == IF Has(config, "loop_count")
                      /\ iteration < config.loop_count - 1
                   THEN Put(vals3, "_loop_iteration", iteration + 1)
                   ELSE vals3
      IN Returned(
           [e EXCEPT !.events = @ \o
               << Event("llm.start", node.id, NoData),
                  LlmEnd(node.id, tokens_input, tokens_output) >>],
           [h EXCEPT
               ![e.values] = vals4,
               ![e.messages] = Append(@, [role |-> "assistant",
                                           content |-> response,
                                           node_id |-> node.id])])

\* _execute_tool_node: one tool.start / tool.end pair and one result per
\* pending call, in order.
ExecuteToolNodeBug(e, h, node) ==
    Returned([e EXCEPT !.events = Append(@, Event("tool.end", node.id, NoData))],
             h)
ExecuteToolNode(e, h, node) ==
    LET tools == Get(node.config, "tools", NoData)
        vals == h[e.values]
        pending_calls == Get(vals, "pending_tool_calls", <<>>)
        tool_events ==
            [i \in 1..(2 * Len(pending_calls)) |->
                IF i % 2 = 1
                THEN Event("tool.start", node.id,
                           [tool |-> pending_calls[(i + 1) \div 2].name])
                ELSE Event("tool.end", node.id,
                           [tool |-> pending_calls[i \div 2].name])]
        tool_results ==
            [i \in 1..Len(pending_calls) |->
                [tool |-> pending_calls[i].name,
                 result |-> Get(tools, pending_calls[i].name, "mock_result")]]
    IN Returned(
         [e EXCEPT !.events = @ \o tool_events],
         [h EXCEPT ![e.values] =
             Put(Put(vals, "tool_results", tool_results),
                 "pending_tool_calls", <<>>)])

\* _execute_human_node.
ExecuteHumanNodeBug(e, h, node) == Returned(e, h)
ExecuteHumanNode(e, h, node) ==
    IF Truthy(node.config, "interrupt")
    THEN IF Truthy(h[e.values], "_human_approved")
         THEN Returned(e, [h EXCEPT ![e.values] =
                               Put(@, "_human_approved", FALSE)])
         ELSE Raised("InterruptError", "", e, h)
    ELSE Returned(e, h)

\* The type dispatch of _execute_node.
ExecuteNodeBody(e, h, node) ==
    CASE node.type = "llm" -> ExecuteLlmNode(e, h, node)
      [] node.type = "tool" -> ExecuteToolNode(e, h, node)
      [] node.type = "human" -> ExecuteHumanNode(e, h, node)
      [] OTHER -> Returned(e, h)

\* A condition string is kept as the sequence of its tokens: a word, a
\* blank " ", a quote (' or "), or the operator "==".  s.strip(chars): the
\* tokens of s without its leading and trailing tokens from chars.
Strip(s, chars) ==
    LET kept == {i \in 1..Len(s) : s[i] \notin chars} IN
    IF kept = {} THEN <<>>
    ELSE SubSeq(s, CHOOSE i \in kept : \A j \in kept : i <= j,
                   CHOOSE i \in kept : \A j \in kept : i >= j)

\* _evaluate_condition: the condition is split at "=="; with exactly two
\* parts, key is the stripped left part, expected the right part stripped
\* of blanks and then of quotes, and the result is
\* str(state.get(key)) == expected.  A key of more than one token names no
\* state key.  The state values conditions read here are strings, whose
\* str() is the string itself; for an absent key state.get gives None,
\* whose str() is the word None.
EvaluateCondition(condition, vals) ==
    LET eqs == {i \in 1..Len(condition) : condition[i] = "=="} IN
    IF Cardinality(eqs) # 1 THEN FALSE
    ELSE
      LET p == CHOOSE i \in eqs : TRUE
          key == Strip(SubSeq(condition, 1, p - 1), {" "})
          expected == Strip(Strip(SubSeq(condition, p + 1, Len(condition)),
                                  {" "}), {"'", "\""})
          actual == IF Len(key) = 1 THEN Get(vals, key[1], None) ELSE None
      IN << actual >> = expected

\* The for loop of _get_next_node: the target of the first edge that has no
\* condition or whose condition holds, else of the first edge.
FirstEdgeTargetBug(edges, vals) == edges[1].target
FirstEdgeTarget(edges, vals) ==
    LET hits == {i \in 1..Len(edges) :
                    \/ edges[i].condition = NoCondition
                    \/ EvaluateCondition(edges[i].condition, vals)}
    IN IF hits = {} THEN edges[1].target
       ELSE edges[CHOOSE i \in hits : \A j \in hits : i <= j].target

\* _get_next_node.
GetNextNode(graph, current_node_id, vals) ==
    LET edges == OutgoingEdges(graph, current_node_id) IN
    IF edges = <<>> THEN END
    ELSE IF NodeOf(graph, current_node_id).type = "router"
    THEN LET config == NodeOf(graph, current_node_id).config
             route_value == Get(vals, Get(config, "route_key", "route"), None)
             routes == Get(config, "routes", NoData)
         IN IF route_value \in DOMAIN routes
            THEN routes[route_value]
            ELSE Get(config, "default", edges[1].target)
    ELSE FirstEdgeTarget(edges, vals)

\* "node.config['should_fail'] = True" and "node.type = NodeType.HUMAN;
\* node.config['interrupt'] = True": the forced failure and the forced
\* interrupt are written into the Node object of the shared Graph.
ForcedFailure(node) ==
    [node EXCEPT !.config = Put(@, "should_fail", TRUE)]
ForcedInterrupt(node) ==
    [node EXCEPT !.type = "human", !.config = Put(@, "interrupt", TRUE)]

\* The Graph object after the override checks of the loop for the node
\* current_node_id.
ApplyOverrides(graph, e, current_node_id) ==
    LET i == NodeIndex(graph, current_node_id)
        n0 == graph.nodes[i]
        n1 == IF e.fail_at_node = current_node_id
              THEN ForcedFailure(n0) ELSE n0
        n2 == IF e.interrupt_at_node = current_node_id
              THEN ForcedInterrupt(n1) ELSE n1
    IN [graph EXCEPT !.nodes[i] = n2]

\* state.nodes_executed.append(current_node_id).
RecordExecutedBug(nodes, id) == nodes
RecordExecuted(nodes, id) == Append(nodes, id)

\* create_checkpoint: where the checkpoint's k-th field (values, messages,
\* nodes_executed) lives, given the address `live` of the state's object:
\* .copy() makes a new object, placed at the end of the heap.
SnapshotAddrBug(h, live, k) == live
SnapshotAddr(h, live, k) == Len(h) + k

\* "resume_from or entry_point".
StartNodeIdBug(graph, resume_from) == graph.entry_point
StartNodeId(graph, resume_from) ==
    IF resume_from # None THEN resume_from ELSE graph.entry_point

\* The executor ends: execute_run emits the terminal run event and returns
\* or re-raises.
FinishBug(w, outcome, event, error) ==
    [w EXCEPT !.ex.status = outcome, !.ex.error = error]
Finish(w, outcome, event, error) ==
    [w EXCEPT !.ex.status = outcome,
              !.ex.events = Append(@, event),
              !.ex.error = error]

\* An error message is kept as the sequence of its parts.
NoError == [message |-> <<>>, node_id |-> None]

\* One pass of the while loop of GraphExecutor.execute, from the loop test
\* to the next one, on the world w = [graphs, heap, ex]; with what follows
\* in execute_run when the loop ends or an exception leaves it.  The loop
\* test is "current_node_id and current_node_id != '__end__'": an empty
\* id or None ends the loop as the terminal sentinel does.
NodeStep(w) ==
    LET e == w.ex
        current_node_id == e.current_node_id
        graph == w.graphs[e.graph_id]
    IN
    IF current_node_id \in {END, "", None}
    THEN Finish([w EXCEPT !.ex.current_node = None], "completed",
                Event("run.completed", None, NoData), NoError)
    ELSE IF current_node_id \notin NodeIds(graph)
    THEN Finish(w, "failed",
                Event("run.failed", None,
                      [error |-> <<"Node not found: ", current_node_id>>]),
                [message |-> <<"Node not found: ", current_node_id>>,
                 node_id |-> None])
    ELSE
      LET graph1 == ApplyOverrides(graph, e, current_node_id)
          graphs1 == [w.graphs EXCEPT ![e.graph_id] = graph1]
          node == NodeOf(graph1, current_node_id)
          ex1 == [e EXCEPT
                    !.current_node = current_node_id,
                    !.events = Append(@, Event("node.started", node.id,
                                               [node_type |-> node.type]))]
          r == ExecuteNodeBody(ex1, w.heap, node)
          w1 == [graphs |-> graphs1, heap |-> r.heap, ex |-> r.ex]
      IN
      IF r.raised = "ExecutionError"
      THEN Finish([w1 EXCEPT !.ex.events =
                       Append(@, Event("node.failed", node.id,
                                       [error |-> <<r.message>>]))],
                  "failed",
                  Event("run.failed", node.id, [error |-> <<r.message>>]),
                  [message |-> <<r.message>>, node_id |-> node.id])
      ELSE IF r.raised = "InterruptError"
      THEN Finish(w1, "interrupted",
                  Event("run.interrupted", node.id,
                        [prompt |-> Get(node.config, "prompt",
                                        "Human review required"),
                         required_fields |->
                             Get(node.config, "required_fields", <<>>)]),
                  [message |-> <<"Interrupted at ", node.id>>,
                   node_id |-> node.id])
      ELSE
        LET h1 == [r.heap EXCEPT ![e.nodes_executed] =
                       RecordExecuted(@, current_node_id)]
            checkpoint ==
                [node_id |-> current_node_id,
                 values |-> SnapshotAddr(h1, e.values, 1),
                 messages |-> SnapshotAddr(h1, e.messages, 2),
                 nodes_executed |-> SnapshotAddr(h1, e.nodes_executed, 3)]
            h2 == h1 \o << h1[e.values], h1[e.messages],
                           h1[e.nodes_executed] >>
        IN [graphs |-> graphs1,
            heap |-> h2,
            ex |-> [r.ex EXCEPT
                      !.events = @ \o
                          << Event("node.completed", node.id, NoData),
                             Event("checkpoint.created", current_node_id,
                                   NoData) >>,
                      !.checkpoints = Append(@, checkpoint),
                      !.current_node_id =
                          GetNextNode(graph1, current_node_id,
                                      h2[e.values])]]

\* The executor's record before any call, and the heap with nothing in it.
IdleExecutor ==
    [status |-> "idle", graph_id |-> None, input |-> NoData,
     fail_at_node |-> None, interrupt_at_node |-> None, resume_from |-> None,
     current_node_id |-> None, current_node |-> None,
     values |-> 0, messages |-> 0, nodes_executed |-> 0,
     checkpoints |-> <<>>, events |-> <<>>, error |-> NoError,
     initial_state |-> NoData]

\* execute_run up to the first loop test of GraphExecutor.execute, for the
\* call c = [graph_id, input, fail_at, interrupt_at, resume_from]: get_graph
\* (ValueError for an unknown id, raised before the emitter exists), the
\* emitter and its run.started, a new ExecutionState whose values take the
\* input, and the node to start at.
StartRun(gs, c) ==
    IF c.graph_id \notin DOMAIN gs
    THEN [graphs |-> gs, heap |-> <<>>,
          ex |-> [IdleExecutor EXCEPT
                    !.status = "value_error", !.graph_id = c.graph_id,
                    !.input = c.input,
                    !.error = [message |-> <<"Unknown graph: ", c.graph_id>>,
                               node_id |-> None]]]
    ELSE [graphs |-> gs,
          heap |-> << c.input, <<>>, <<>> >>,
          ex |-> [IdleExecutor EXCEPT
                    !.status = "running", !.graph_id = c.graph_id,
                    !.input = c.input,
                    !.fail_at_node = c.fail_at,
                    !.interrupt_at_node = c.interrupt_at,
                    !.resume_from = c.resume_from,
                    !.values = 1, !.messages = 2, !.nodes_executed = 3,
                    !.events = << Event("run.started", None,
                                        [input |-> c.input]) >>,
                    !.current_node_id =
                        StartNodeId(gs[c.graph_id], c.resume_from)]]

\* The call c run to its end on the graphs given.
RECURSIVE RunSteps(_)
RunSteps(w) == IF w.ex.status # "running" THEN w ELSE RunSteps(NodeStep(w))
RunToEnd(gs, c) == RunSteps(StartRun(gs, c))

\* No task: the call was not made by a worker.
NoTask == [graph_id |-> None, input |-> NoData, resume_from |-> None]

\* EventEmitter.__init__: no events, no listeners.  `calls` is the record
\* of the listener invocations made, <<listener index, event>> in the order
\* made, and `raised` tells whether the last emit raised to its caller.
NewEmitter == [events |-> <<>>, listeners |-> <<>>, calls |-> <<>>,
               raised |-> FALSE]

----------------------------------------------------------------------------
Init ==
    /\ mainPc = "init"
    /\ running = FALSE
    /\ registered = FALSE
    /\ regError = "none"
    /\ status = "idle"
    /\ active_runs = {}
    /\ total_runs = 0
    /\ failed_runs = 0
    /\ hbPc = "none"
    /\ hbCancel = FALSE
    /\ pollPc = "none"
    /\ pollCancel = FALSE
    /\ max_tasks = 0
    /\ clientClosed = FALSE
    /\ taskPc = [t \in Tasks |-> "none"]
    /\ taskRun = [t \in Tasks |-> 0]
    /\ taskGraph = [t \in Tasks |-> "none"]
    /\ reports = [t \in Tasks |-> <<>>]
    /\ eventsSent = [t \in Tasks |-> <<>>]
    /\ graphs = AllGraphs
    /\ heap = <<>>
    /\ ex = IdleExecutor
    /\ invocations = 0
    /\ dispatched = NoTask
    /\ probe = [fn |-> "none"]
    /\ emitter = NewEmitter
    /\ posts = {}

----------------------------------------------------------------------------
(* The graph executor, as far as the worker sees it: how execute_run ends  *)
(* for each graph id and which events its emitter has collected by then.   *)

\* Keys of the GRAPHS registry that tasks of this model carry.
GRAPHS == {"simple_echo", "human_interrupt", "failure"}

\* get_graph: an id outside the registry raises ValueError.
KnownGraph(g) == g \in GRAPHS

\* How execute_run ends for a fresh run of graph g with the default
\* executor settings: it returns (state, emitter), or raises InterruptError
\* (human_review of human_interrupt has interrupt = True and state holds no
\* approval), ExecutionError (fail_here of failure has should_fail = True),
\* or the ValueError of get_graph.
ExecuteRunOutcome(g) ==
    CASE g = "simple_echo" -> "success"
      [] g = "human_interrupt" -> "interrupt"
      [] g = "failure" -> "execution_error"
      [] OTHER -> "unexpected"

\* Events one completed llm node contributes to the emitter's log.
LlmNodeEvents(n) ==
    << <<"node.started", n>>, <<"llm.start", n>>, <<"llm.end", n>>,
       <<"node.completed", n>>, <<"checkpoint.created", n>> >>

\* The log of the run's EventEmitter when execute_run ends.  For an unknown
\* graph id get_graph raises before the emitter exists.
EmitterEvents(g) ==
    CASE g = "simple_echo" ->
            << <<"run.started", "">> >> \o LlmNodeEvents("echo")
               \o << <<"run.completed", "">> >>
      [] g = "human_interrupt" ->
            << <<"run.started", "">> >> \o LlmNodeEvents("draft")
               \o << <<"node.started", "human_review">>,
                     <<"run.interrupted", "human_review">> >>
      [] g = "failure" ->
            << <<"run.started", "">> >> \o LlmNodeEvents("start_ok")
               \o << <<"node.started", "fail_here">>,
                     <<"node.failed", "fail_here">>,
                     <<"run.failed", "fail_here">> >>
      [] OTHER -> <<>>

----------------------------------------------------------------------------
(* Decisions of Worker._execute_run.                                       *)

\* The except clauses that increment failed_runs: ExecutionError and the
\* catch-all Exception; the InterruptError clause and the success path do not.
CountsAsFailureBug(outcome) == outcome # "success"
CountsAsFailure(outcome) == outcome \in {"execution_error", "unexpected"}

\* The status of the one terminal post each path of _execute_run makes:
\* _complete_run(status="success"), _update_run_status(..., "interrupted"),
\* _complete_run(status="error").
TerminalReportBug(outcome) ==
    IF outcome = "interrupt" THEN "error"
    ELSE IF outcome = "success" THEN "success" ELSE "error"
TerminalReport(outcome) ==
    CASE outcome = "success" -> "success"
      [] outcome = "interrupt" -> "interrupted"
      [] OTHER -> "error"

\* _send_events is called on the success path only: in the except clauses
\* the emitter made inside execute_run is out of reach.
SendsEvents(outcome) == outcome = "success"


\* finally: status after "del active_runs[run_id]" left `remaining`.
StatusAfterCleanupBug(remaining, st) == "idle"
StatusAfterCleanup(remaining, st) == IF remaining = {} THEN "idle" ELSE st

----------------------------------------------------------------------------
(* Run tasks: Worker._execute_run, one asyncio task per task of a poll     *)
(* response.                                                               *)

\* From the task's first step to the await inside
\* _update_run_status(thread_id, run_id, "in_progress").
ExecuteRunBegin(t) ==
    /\ taskPc[t] = "spawned"
    /\ active_runs' = active_runs \cup {taskRun[t]}
    /\ status' = "running"
    /\ total_runs' = total_runs + 1
    /\ reports' = [reports EXCEPT ![t] = Append(@, "in_progress")]
    /\ taskPc' = [taskPc EXCEPT ![t] = "post_in_progress"]
    /\ UNCHANGED <<failed_runs, taskRun, taskGraph, eventsSent>>
    /\ UNCHANGED <<mainVars, hbVars, pollVars>>
    /\ UNCHANGED execVars

\* The in_progress post returns (_update_run_status catches every Exception,
\* so whatever the post came to, the worker goes on the same way) and
\* execute_run is entered with the task's graph_id g: get_graph
\* raises at once for an unknown graph, which lands in "except Exception";
\* otherwise the executor starts and suspends in its first node.  Nothing
\* reads the graph_id before this point, so the control plane's choice of it
\* is drawn here.
InProgressResponse(t, g) ==
    /\ taskPc[t] = "post_in_progress"
    /\ taskGraph' = [taskGraph EXCEPT ![t] = g]
    /\ IF KnownGraph(g)
       THEN /\ taskPc' = [taskPc EXCEPT ![t] = "executing"]
            /\ UNCHANGED <<failed_runs, reports>>
       ELSE /\ failed_runs' = IF CountsAsFailure(ExecuteRunOutcome(g))
                              THEN failed_runs + 1 ELSE failed_runs
            /\ reports' = [reports EXCEPT
                   ![t] = Append(@, TerminalReport(ExecuteRunOutcome(g)))]
            /\ taskPc' = [taskPc EXCEPT ![t] = "post_terminal"]
    /\ UNCHANGED <<status, active_runs, total_runs, taskRun, eventsSent>>
    /\ UNCHANGED <<mainVars, hbVars, pollVars>>
    /\ UNCHANGED execVars

\* execute_run returns or raises; the worker goes on to its next post.
ExecuteRunEnd(t) ==
    /\ taskPc[t] = "executing"
    /\ LET outcome == ExecuteRunOutcome(taskGraph[t]) IN
        /\ failed_runs' = IF CountsAsFailure(outcome)
                          THEN failed_runs + 1 ELSE failed_runs
        /\ IF SendsEvents(outcome)
           THEN /\ eventsSent' = [eventsSent EXCEPT
                        ![t] = EmitterEvents(taskGraph[t])]
                /\ taskPc' = [taskPc EXCEPT ![t] = "post_events"]
                /\ UNCHANGED reports
           ELSE /\ reports' = [reports EXCEPT
                        ![t] = Append(@, TerminalReport(outcome))]
                /\ taskPc' = [taskPc EXCEPT ![t] = "post_terminal"]
                /\ UNCHANGED eventsSent
    /\ UNCHANGED <<status, active_runs, total_runs, taskRun, taskGraph>>
    /\ UNCHANGED <<mainVars, hbVars, pollVars>>
    /\ UNCHANGED execVars

\* _send_events returns (it catches every Exception);
\* _complete_run(status="success") makes its post.
EventsResponse(t) ==
    /\ taskPc[t] = "post_events"
    /\ reports' = [reports EXCEPT ![t] = Append(@, TerminalReport("success"))]
    /\ taskPc' = [taskPc EXCEPT ![t] = "post_terminal"]
    /\ UNCHANGED <<stateVars, taskRun, taskGraph, eventsSent>>
    /\ UNCHANGED <<mainVars, hbVars, pollVars>>
    /\ UNCHANGED execVars

\* The terminal post returns (its helper catches every Exception) and the
\* finally clause runs: del active_runs[run_id] raises KeyError when the key is gone, and
\* the status line after it is then skipped.
TerminalResponse(t) ==
    /\ taskPc[t] = "post_terminal"
    /\ IF taskRun[t] \in active_runs
       THEN /\ active_runs' = active_runs \ {taskRun[t]}
            /\ status' = StatusAfterCleanup(active_runs', status)
            /\ taskPc' = [taskPc EXCEPT ![t] = "done"]
       ELSE /\ taskPc' = [taskPc EXCEPT ![t] = "key_error"]
            /\ UNCHANGED <<active_runs, status>>
    /\ UNCHANGED <<total_runs, failed_runs, taskRun, taskGraph, reports,
                   eventsSent>>
    /\ UNCHANGED <<mainVars, hbVars, pollVars>>
    /\ UNCHANGED execVars

----------------------------------------------------------------------------
(* Worker.start and Worker._register.                                      *)

\* _register re-raises HTTPStatusError (an error status other than 404);
\* an undecodable 2xx body makes response.json() raise, which no except
\* clause of _register catches.  A 404 and a RequestError mark the worker
\* registered and return.
RegisterRaisesBug(o) == o = "bad_body"
RegisterRaises(o) == o \in {"http_error", "bad_body"}

\* start() up to the await of the registration post.
Start ==
    /\ mainPc = "init"
    /\ running' = TRUE
    /\ mainPc' = "registering"
    /\ UNCHANGED <<registered, regError, clientClosed>>
    /\ UNCHANGED <<stateVars, hbVars, pollVars, taskVars>>
    /\ UNCHANGED execVars

\* The registration call ends; unless it raises, start() creates the
\* heartbeat task and the poll task and returns.
RegisterResponse(o) ==
    /\ mainPc = "registering"
    /\ regError' = IF o \in {"http_error", "bad_body"} THEN o ELSE "none"
    /\ IF RegisterRaises(o)
       THEN /\ mainPc' = "start_failed"
            /\ UNCHANGED <<registered, hbPc, pollPc>>
       ELSE /\ registered' = TRUE
            /\ hbPc' = "created"
            /\ pollPc' = "created"
            /\ mainPc' = "started"
    /\ UNCHANGED <<running, clientClosed, hbCancel, pollCancel, max_tasks>>
    /\ UNCHANGED <<stateVars, taskVars>>
    /\ UNCHANGED execVars

----------------------------------------------------------------------------
(* Heartbeat task: Worker._heartbeat_loop and Worker._send_heartbeat.      *)

\* Where the loop is after one heartbeat call: a 2xx or 404 sets
\* last_heartbeat, a RequestError is caught inside _send_heartbeat, and in
\* both cases the loop sleeps heartbeat_interval_seconds; HTTPStatusError
\* reaches "except Exception" of the loop, which sleeps 5 s and goes on.
HeartbeatAfterBug(o) ==
    CASE o = "http_error" -> "done"
      [] o = "transport_error" -> "sleep_failed"
      [] OTHER -> "sleep"
HeartbeatAfter(o) ==
    CASE o = "http_error" -> "errsleep"
      [] o = "transport_error" -> "sleep_failed"
      [] OTHER -> "sleep"

\* The task's first step, or a sleep has elapsed: the loop tests _running
\* and posts the next heartbeat.
HeartbeatSend ==
    /\ hbPc \in {"created", "sleep", "sleep_failed", "errsleep"}
    /\ ~hbCancel
    /\ hbPc' = IF running THEN "posting" ELSE "done"
    /\ UNCHANGED hbCancel
    /\ UNCHANGED <<mainVars, stateVars, pollVars, taskVars>>
    /\ UNCHANGED execVars

\* The heartbeat call ends.
HeartbeatResponse(o) ==
    /\ hbPc = "posting"
    /\ ~hbCancel
    /\ hbPc' = HeartbeatAfter(o)
    /\ UNCHANGED hbCancel
    /\ UNCHANGED <<mainVars, stateVars, pollVars, taskVars>>
    /\ UNCHANGED execVars

\* After cancel() the task's next step receives CancelledError, wherever it
\* is suspended: inside the try the loop breaks, inside the "except Exception"
\* sleep the error leaves the coroutine; a task that never ran never runs.
HeartbeatCancelled ==
    /\ hbCancel
    /\ hbPc \in {"created", "posting", "sleep", "sleep_failed", "errsleep"}
    /\ hbPc' = "done"
    /\ UNCHANGED hbCancel
    /\ UNCHANGED <<mainVars, stateVars, pollVars, taskVars>>
    /\ UNCHANGED execVars

----------------------------------------------------------------------------
(* Poll task: Worker._poll_loop and Worker._poll_for_runs.                 *)

\* "Only poll if we have capacity".
HasCapacity(n) == n < MaxConcurrentRuns

\* The "max_tasks" field of the poll request.
PollMaxTasksBug(n) == MaxConcurrentRuns
PollMaxTasks(n) == MaxConcurrentRuns - n

\* Tasks handed out so far, and the ids of the next k.
Issued == {t \in Tasks : taskPc[t] # "none"}
NextTasks(k) == {t \in Tasks : Cardinality(Issued) < t
                               /\ t <= Cardinality(Issued) + k}

\* Run tasks the poll loop waits for before its next iteration:
\* _poll_for_runs hands each run to asyncio.create_task and never awaits the
\* task, so there are none.
PollAwaitedTasksBug ==
    {t \in Tasks : taskPc[t] \notin {"none", "spawned", "done", "key_error"}}
PollAwaitedTasks == {}

\* The task's first step, or a sleep has elapsed: the loop tests _running
\* and, with capacity left, posts a poll request; at capacity it sleeps 1 s.
\* Run tasks made by create_task are ready at once, so the event loop runs
\* their first step before the timer of the following sleep can fire.
PollIterate ==
    /\ pollPc \in {"created", "sleep", "errsleep"}
    /\ ~pollCancel
    /\ \A t \in Tasks : taskPc[t] # "spawned"
    /\ PollAwaitedTasks = {}
    /\ IF ~running
       THEN pollPc' = "done" /\ max_tasks' = 0
       ELSE IF HasCapacity(Cardinality(active_runs))
            THEN /\ pollPc' = "posting"
                 /\ max_tasks' = PollMaxTasks(Cardinality(active_runs))
            ELSE /\ pollPc' = "sleep"
                 /\ max_tasks' = 0
    /\ UNCHANGED pollCancel
    /\ UNCHANGED <<mainVars, stateVars, hbVars, taskVars>>
    /\ UNCHANGED execVars

\* The poll call ends with no task: a 404, a 204, an empty task list, or a
\* RequestError caught inside _poll_for_runs.  The loop sleeps 1 s.
PollResponseEmpty(o) ==
    /\ pollPc = "posting"
    /\ ~pollCancel
    /\ o \in {"ok", "not_found", "transport_error"}
    /\ pollPc' = "sleep"
    /\ max_tasks' = 0
    /\ UNCHANGED pollCancel
    /\ UNCHANGED <<mainVars, stateVars, hbVars, taskVars>>
    /\ UNCHANGED execVars

\* The poll call ends with another error status: HTTPStatusError reaches
\* "except Exception" of the loop, which sleeps 5 s and goes on.
PollResponseError ==
    /\ pollPc = "posting"
    /\ ~pollCancel
    /\ pollPc' = "errsleep"
    /\ max_tasks' = 0
    /\ UNCHANGED pollCancel
    /\ UNCHANGED <<mainVars, stateVars, hbVars, taskVars>>
    /\ UNCHANGED execVars

\* The poll call ends with k tasks: the loop makes one asyncio task per
\* entry of the list, however many there are, and sleeps 1 s.  The control
\* plane hands out each run once: every task carries a run_id of its own.
PollResponseTasks(k) ==
    /\ pollPc = "posting"
    /\ ~pollCancel
    /\ k >= 1
    /\ Cardinality(Issued) + k <= MaxTasks
    /\ taskPc' = [t \in Tasks |->
                    IF t \in NextTasks(k) THEN "spawned" ELSE taskPc[t]]
    /\ taskRun' = [t \in Tasks |->
                    IF t \in NextTasks(k) THEN t ELSE taskRun[t]]
    /\ pollPc' = "sleep"
    /\ max_tasks' = 0
    /\ UNCHANGED <<pollCancel, taskGraph, reports, eventsSent>>
    /\ UNCHANGED <<mainVars, stateVars, hbVars>>
    /\ UNCHANGED execVars

\* As for the heartbeat task.
PollCancelled ==
    /\ pollCancel
    /\ pollPc \in {"created", "posting", "sleep", "errsleep"}
    /\ pollPc' = "done"
    /\ max_tasks' = 0
    /\ UNCHANGED pollCancel
    /\ UNCHANGED <<mainVars, stateVars, hbVars, taskVars>>
    /\ UNCHANGED execVars

----------------------------------------------------------------------------
(* Worker.stop and Worker._deregister.                                     *)

\* Run tasks that stop() cancels: it holds no reference to them (the result
\* of create_task in _poll_for_runs is dropped) and cancels only the
\* heartbeat task and the poll task.
StopCancelledTasksBug == {t \in Tasks : taskPc[t] \notin {"none", "done"}}
StopCancelledTasks == {}

\* Whether an outcome of the deregistration call escapes _deregister: the
\* call sits in "try ... except Exception", so none does.
DeregisterRaises(o) == FALSE

\* WorkerState.registered after _deregister has made its call: the flag is
\* cleared after the try statement, whatever the call came to.
RegisteredAfterDeregisterBug(o) == o \notin {"ok", "not_found"}
RegisteredAfterDeregister(o) == FALSE

\* stop() from its first line: _running is cleared; with the loops created
\* the heartbeat task is cancelled and awaited.  Without them (start() not
\* called, or failed) and not registered, _deregister returns at once and
\* the client is closed.
Stop ==
    /\ mainPc \in {"init", "started", "start_failed"}
    /\ running' = FALSE
    /\ taskPc' = [t \in Tasks |->
                    IF t \in StopCancelledTasks THEN "cancelled"
                    ELSE taskPc[t]]
    /\ IF hbPc # "none"
       THEN /\ hbCancel' = TRUE
            /\ mainPc' = "stop_wait_heartbeat"
            /\ UNCHANGED clientClosed
       ELSE /\ mainPc' = "closing"
            /\ clientClosed' = TRUE
            /\ UNCHANGED hbCancel
    /\ UNCHANGED <<registered, regError, hbPc, taskRun, taskGraph, reports,
                   eventsSent>>
    /\ UNCHANGED <<stateVars, pollVars>>
    /\ UNCHANGED execVars

\* "await self._heartbeat_task" returns; the poll task is cancelled and
\* awaited.
StopAwaitHeartbeat ==
    /\ mainPc = "stop_wait_heartbeat"
    /\ hbPc = "done"
    /\ pollCancel' = TRUE
    /\ mainPc' = "stop_wait_poll"
    /\ UNCHANGED <<running, registered, regError, clientClosed, pollPc,
                   max_tasks>>
    /\ UNCHANGED <<stateVars, hbVars, taskVars>>
    /\ UNCHANGED execVars

\* "await self._poll_task" returns; _deregister posts its request (the
\* worker is registered whenever the loops exist).
StopAwaitPoll ==
    /\ mainPc = "stop_wait_poll"
    /\ pollPc = "done"
    /\ mainPc' = IF registered THEN "deregistering" ELSE "closing"
    /\ clientClosed' = ~registered
    /\ UNCHANGED <<running, registered, regError>>
    /\ UNCHANGED <<stateVars, hbVars, pollVars, taskVars>>
    /\ UNCHANGED execVars

\* The deregistration call ends; registered is cleared and the client is
\* closed (aclose marks it closed before its first await).
DeregisterResponse(o) ==
    /\ mainPc = "deregistering"
    /\ IF DeregisterRaises(o)
       THEN /\ mainPc' = "stop_failed"
            /\ UNCHANGED <<registered, clientClosed>>
       ELSE /\ registered' = RegisteredAfterDeregister(o)
            /\ clientClosed' = TRUE
            /\ mainPc' = "closing"
    /\ UNCHANGED <<running, regError>>
    /\ UNCHANGED <<stateVars, hbVars, pollVars, taskVars>>
    /\ UNCHANGED execVars

\* aclose() is done and stop() returns.
StopReturn ==
    /\ mainPc = "closing"
    /\ mainPc' = "stopped"
    /\ UNCHANGED <<running, registered, regError, clientClosed>>
    /\ UNCHANGED <<stateVars, hbVars, pollVars, taskVars>>
    /\ UNCHANGED execVars

----------------------------------------------------------------------------
Next ==
    \/ Start
    \/ \E o \in RegisterOutcomes : RegisterResponse(o)
    \/ HeartbeatSend
    \/ \E o \in HttpOutcomes : HeartbeatResponse(o)
    \/ HeartbeatCancelled
    \/ PollIterate
    \/ \E o \in HttpOutcomes : PollResponseEmpty(o)
    \/ PollResponseError
    \/ \E k \in 1..MaxTasks : PollResponseTasks(k)
    \/ PollCancelled
    \/ \E t \in Tasks : ExecuteRunBegin(t)
    \/ \E t \in Tasks, g \in GraphIds : InProgressResponse(t, g)
    \/ \E t \in Tasks : ExecuteRunEnd(t)
    \/ \E t \in Tasks : EventsResponse(t)
    \/ \E t \in Tasks : TerminalResponse(t)
    \/ Stop
    \/ StopAwaitHeartbeat
    \/ StopAwaitPoll
    \/ \E o \in HttpOutcomes : DeregisterResponse(o)
    \/ StopReturn

Spec == Init /\ [][Next]_vars

\* One step of the run task t.
RunStep(t) ==
    \/ ExecuteRunBegin(t)
    \/ \E g \in GraphIds : InProgressResponse(t, g)
    \/ ExecuteRunEnd(t)
    \/ EventsResponse(t)
    \/ TerminalResponse(t)

\* The event loop runs every ready task and every HTTP call of the client
\* ends within its 30 s timeout: a heartbeat that can be sent is sent, its
\* call ends, and a run task that can take its next step takes it.
FairSpec ==
    /\ Spec
    /\ WF_vars(HeartbeatSend)
    /\ WF_vars(\E o \in HttpOutcomes : HeartbeatResponse(o))
    /\ \A t \in Tasks : WF_vars(RunStep(t))

\* One way or another the poll call in flight ends.
PollResponse ==
    \/ \E o \in HttpOutcomes : PollResponseEmpty(o)
    \/ PollResponseError
    \/ \E k \in 1..MaxTasks : PollResponseTasks(k)

\* The event loop serves the two loops and starts every task it was given
\* (a task made by create_task is ready at once), and every HTTP call of the
\* loops ends within the client's timeout.  Nothing is assumed about a run
\* task after its first step: a run may stay suspended in a post or in the
\* executor for ever.
LoopSpec ==
    /\ Spec
    /\ WF_vars(HeartbeatSend)
    /\ WF_vars(\E o \in HttpOutcomes : HeartbeatResponse(o))
    /\ WF_vars(PollIterate)
    /\ WF_vars(PollResponse)
    /\ \A t \in Tasks : WF_vars(ExecuteRunBegin(t))

----------------------------------------------------------------------------
(* Run tasks with the outcome of every post on record: a worker that was   *)
(* started and polls, the runs it is handed, and for each run the          *)
(* in_progress post, the events post and the terminal post, each of which  *)
(* may succeed, be answered 404, be answered with another error status or  *)
(* fail in transport.                                                      *)

\* Whether a post helper of the run task lets an error out to its caller.
\* _update_run_status, _send_events and _complete_run each wrap the post in
\* "try ... except Exception", log a warning and return; a 404 does not even
\* reach raise_for_status in the first two.
PostRaisesBug(o) == o = "http_error"
PostRaises(o) == FALSE

\* The in_progress post ends with outcome o.  Had the helper raised, the
\* error would land in "except Exception" of _execute_run before execute_run
\* was called.
InProgressPosted(t, g, o) ==
    /\ taskPc[t] = "post_in_progress"
    /\ posts' = posts \cup {o}
    /\ IF PostRaises(o)
       THEN /\ failed_runs' = failed_runs + 1
            /\ reports' = [reports EXCEPT ![t] = Append(@, "error")]
            /\ taskPc' = [taskPc EXCEPT ![t] = "post_error"]
            /\ UNCHANGED taskGraph
       ELSE /\ taskGraph' = [taskGraph EXCEPT ![t] = g]
            /\ IF KnownGraph(g)
               THEN /\ taskPc' = [taskPc EXCEPT ![t] = "executing"]
                    /\ UNCHANGED <<failed_runs, reports>>
               ELSE /\ failed_runs' = IF CountsAsFailure(ExecuteRunOutcome(g))
                                      THEN failed_runs + 1 ELSE failed_runs
                    /\ reports' = [reports EXCEPT
                           ![t] = Append(@, TerminalReport(ExecuteRunOutcome(g)))]
                    /\ taskPc' = [taskPc EXCEPT ![t] = "post_terminal"]
    /\ UNCHANGED <<status, active_runs, total_runs, taskRun, eventsSent>>
    /\ UNCHANGED <<mainVars, hbVars, pollVars>>
    /\ UNCHANGED <<graphs, heap, ex, invocations, dispatched, probe, emitter>>

\* The events post ends with outcome o and _complete_run(status="success")
\* makes its post.  Had _send_events raised, "except Exception" would count
\* a failure and report an error.
EventsPosted(t, o) ==
    /\ taskPc[t] = "post_events"
    /\ posts' = posts \cup {o}
    /\ IF PostRaises(o)
       THEN /\ failed_runs' = failed_runs + 1
            /\ reports' = [reports EXCEPT ![t] = Append(@, "error")]
            /\ taskPc' = [taskPc EXCEPT ![t] = "post_error"]
       ELSE /\ reports' = [reports EXCEPT
                   ![t] = Append(@, TerminalReport("success"))]
            /\ taskPc' = [taskPc EXCEPT ![t] = "post_terminal"]
            /\ UNCHANGED failed_runs
    /\ UNCHANGED <<status, active_runs, total_runs, taskRun, taskGraph,
                   eventsSent>>
    /\ UNCHANGED <<mainVars, hbVars, pollVars>>
    /\ UNCHANGED <<graphs, heap, ex, invocations, dispatched, probe, emitter>>

\* The terminal post ends with outcome o and the finally clause runs.  Had
\* _complete_run(status="success") raised inside the try, "except Exception"
\* would count a failure and post an error report; raised from an except
\* clause, the error would leave the task after the finally clause.
TerminalPosted(t, o) ==
    /\ taskPc[t] \in {"post_terminal", "post_error"}
    /\ posts' = posts \cup {o}
    /\ IF PostRaises(o) /\ taskPc[t] = "post_terminal"
          /\ reports[t][Len(reports[t])] = "success"
       THEN /\ failed_runs' = failed_runs + 1
            /\ reports' = [reports EXCEPT ![t] = Append(@, "error")]
            /\ taskPc' = [taskPc EXCEPT ![t] = "post_error"]
            /\ UNCHANGED <<active_runs, status>>
       ELSE /\ UNCHANGED <<failed_runs, reports>>
            /\ IF taskRun[t] \in active_runs
               THEN /\ active_runs' = active_runs \ {taskRun[t]}
                    /\ status' = StatusAfterCleanup(active_runs', status)
                    /\ taskPc' = [taskPc EXCEPT
                           ![t] = IF PostRaises(o) THEN "raised" ELSE "done"]
               ELSE /\ taskPc' = [taskPc EXCEPT ![t] = "key_error"]
                    /\ UNCHANGED <<active_runs, status>>
    /\ UNCHANGED <<total_runs, taskRun, taskGraph, eventsSent>>
    /\ UNCHANGED <<mainVars, hbVars, pollVars>>
    /\ UNCHANGED <<graphs, heap, ex, invocations, dispatched, probe, emitter>>

RunNext ==
    \/ Start
    \/ \E o \in RegisterOutcomes : RegisterResponse(o)
    \/ PollIterate
    \/ \E k \in 1..MaxTasks : PollResponseTasks(k)
    \/ \E t \in Tasks : ExecuteRunBegin(t)
    \/ \E t \in Tasks, g \in GraphIds, o \in HttpOutcomes :
           InProgressPosted(t, g, o)
    \/ \E t \in Tasks : ExecuteRunEnd(t)
    \/ \E t \in Tasks, o \in HttpOutcomes : EventsPosted(t, o)
    \/ \E t \in Tasks, o \in HttpOutcomes : TerminalPosted(t, o)

RunSpec == Init /\ [][RunNext]_vars

----------------------------------------------------------------------------
(* A control plane that may hand out a run again while the worker still    *)
(* executes it: nothing in _poll_for_runs compares the run_id of a task    *)
(* with the keys of active_runs.                                           *)

\* The poll call ends with one task whose run_id r is that of a run still
\* in active_runs; the loop makes an asyncio task for it as for any other.
PollResponseRedelivered(r) ==
    /\ pollPc = "posting"
    /\ ~pollCancel
    /\ r \in active_runs
    /\ Cardinality(Issued) < MaxTasks
    /\ taskPc' = [t \in Tasks |->
                    IF t \in NextTasks(1) THEN "spawned" ELSE taskPc[t]]
    /\ taskRun' = [t \in Tasks |->
                    IF t \in NextTasks(1) THEN r ELSE taskRun[t]]
    /\ pollPc' = "sleep"
    /\ max_tasks' = 0
    /\ UNCHANGED <<pollCancel, taskGraph, reports, eventsSent>>
    /\ UNCHANGED <<mainVars, stateVars, hbVars>>
    /\ UNCHANGED execVars

DupNext ==
    \/ Start
    \/ \E o \in RegisterOutcomes : RegisterResponse(o)
    \/ PollIterate
    \/ \E k \in 1..MaxTasks : PollResponseTasks(k)
    \/ \E r \in Tasks : PollResponseRedelivered(r)
    \/ \E t \in Tasks : RunStep(t)

DupSpec == Init /\ [][DupNext]_vars

----------------------------------------------------------------------------
(* Calls of execute_run, made one after another in one process: the Graph  *)
(* objects stay the same objects from call to call.                        *)

\* Node ids one step along an edge or a route away from the set S.
RouteTargets(config) ==
    {Get(config, "routes", NoData)[k] :
        k \in DOMAIN Get(config, "routes", NoData)}
    \cup (IF Has(config, "default") THEN {config.default} ELSE {})
Successors(graph, S) ==
    {graph.edges[i].target :
        i \in {j \in 1..Len(graph.edges) : graph.edges[j].source \in S}}
    \cup UNION {RouteTargets(graph.nodes[i].config) :
                  i \in {j \in 1..Len(graph.nodes) : graph.nodes[j].id \in S}}

RECURSIVE Closure(_, _)
Closure(graph, S) ==
    IF Successors(graph, S) \subseteq S THEN S
    ELSE Closure(graph, S \cup Successors(graph, S))

\* The declared nodes a run of the graph can come to.
PathNodes(graph) ==
    (Closure(graph, {graph.entry_point}) \cap NodeIds(graph)) \ {END}

\* The inputs of a call: a message, a route where the graph has a router,
\* and an approval where it has a human node.
RouteValues == {"a", "b", "other"}
HasNodeOfType(graph, type) ==
    \E n \in PathNodes(graph) : NodeOf(graph, n).type = type
InputsFor(graph) ==
    {[message |-> "hi"]}
    \cup (IF HasNodeOfType(graph, "router")
          THEN {[message |-> "hi", route |-> r] : r \in RouteValues}
          ELSE {})
    \cup (IF HasNodeOfType(graph, "human")
          THEN {[message |-> "hi", _human_approved |-> TRUE]}
          ELSE {})

\* The per-run overrides of a call (_mock_config "fail_at" and
\* "interrupt_at"): none, or one of the two naming a node of the graph.
OverridesFor(graph) ==
    {[fail_at |-> None, interrupt_at |-> None]}
    \cup {[fail_at |-> n, interrupt_at |-> None] : n \in PathNodes(graph)}
    \cup {[fail_at |-> None, interrupt_at |-> n] : n \in PathNodes(graph)}

\* resume_from: absent, or a human node of the graph.
ResumePointsFor(graph) ==
    {None} \cup {n \in PathNodes(graph) : NodeOf(graph, n).type = "human"}

\* The calls that can be made of graph id g, the Graph objects being gs.
CallsOf(gs, g) ==
    IF g \notin DOMAIN gs
    THEN {[graph_id |-> g, input |-> [message |-> "hi"], fail_at |-> None,
           interrupt_at |-> None, resume_from |-> None]}
    ELSE {[graph_id |-> g, input |-> i, fail_at |-> o.fail_at,
           interrupt_at |-> o.interrupt_at, resume_from |-> r] :
             i \in InputsFor(gs[g]), o \in OverridesFor(gs[g]),
             r \in ResumePointsFor(gs[g])}

\* The call in progress or just ended, as a call record.
CallOf(e) ==
    [graph_id |-> e.graph_id, input |-> e.input, fail_at |-> e.fail_at_node,
     interrupt_at |-> e.interrupt_at_node, resume_from |-> e.resume_from]

\* A caller awaits execute_run(...).
ExecuteRunCall(c) ==
    /\ ex.status # "running"
    /\ invocations < MaxInvocations
    /\ LET w == StartRun(graphs, c) IN
        /\ graphs' = w.graphs
        /\ heap' = w.heap
        /\ ex' = w.ex
    /\ invocations' = invocations + 1
    /\ UNCHANGED <<posts, workerVars, probe, emitter>>

\* The executor takes its next pass through the loop.
ExecuteStep ==
    /\ ex.status = "running"
    /\ LET w == NodeStep([graphs |-> graphs, heap |-> heap, ex |-> ex]) IN
        /\ graphs' = w.graphs
        /\ heap' = w.heap
        /\ ex' = w.ex
    /\ UNCHANGED <<invocations, dispatched>>
    /\ UNCHANGED <<posts, workerVars, probe, emitter>>

\* Some call is made.
MakeCall ==
    /\ ex.status # "running"
    /\ invocations < MaxInvocations
    /\ \E g \in RunGraphIds : \E c \in CallsOf(graphs, g) : ExecuteRunCall(c)
    /\ dispatched' = NoTask

\* The tasks a poll response hands to the worker here: one for a new run
\* and one to resume the run of human_interrupt that was interrupted at
\* human_review, with the approval in its input.
PollTasks ==
    {[graph_id |-> "simple_echo", input |-> [message |-> "hi"],
      resume_from |-> None],
     [graph_id |-> "human_interrupt",
      input |-> [message |-> "hi", _human_approved |-> TRUE],
      resume_from |-> "human_review"]}

\* _poll_for_runs maps a task to run_data (run_id, thread_id, assistant_id,
\* graph_id, input, config) and _execute_run calls
\* execute_run(run_id, graph_id, input_data): whatever else the task
\* carries is not passed on, and resume_from keeps its default.
WorkerCall(task) ==
    [graph_id |-> task.graph_id, input |-> task.input, fail_at |-> None,
     interrupt_at |-> None, resume_from |-> None]

\* The worker dispatches a task: Worker._execute_run up to execute_run.
DispatchTask ==
    /\ ex.status # "running"
    /\ invocations < MaxInvocations
    /\ \E task \in PollTasks :
          /\ ExecuteRunCall(WorkerCall(task))
          /\ dispatched' = task

\* A caller takes a checkpoint of the state that the call before returned
\* and passes it as initial_state of a call on the same graph, with a new
\* input or none, to resume at the node that followed the checkpoint.  The
\* checkpoint's objects stay where they are: execute binds state.values,
\* state.messages and state.nodes_executed to the objects that
\* initial_state holds, and state.values.update(input_data) writes to the
\* first of them.  initial_state keeps the checkpoint and, under `was`,
\* what it held when it was passed.
RehydrateCall ==
    /\ ex.status = "completed"
    /\ DOMAIN ex.initial_state = {}
    /\ invocations < MaxInvocations
    /\ \E k \in 1..Len(ex.checkpoints),
          input \in {NoData, [message |-> "again"]} :
          LET cp == ex.checkpoints[k]
              history == heap[ex.nodes_executed]
              w == StartRun(graphs,
                            [graph_id |-> ex.graph_id, input |-> input,
                             fail_at |-> None, interrupt_at |-> None,
                             resume_from |->
                                 IF k < Len(history) THEN history[k + 1]
                                 ELSE None])
          IN /\ graphs' = w.graphs
             /\ heap' = [heap EXCEPT
                           ![cp.values] =
                               [key \in DOMAIN @ \cup DOMAIN input |->
                                   IF key \in DOMAIN input
                                   THEN input[key] ELSE @[key]]]
             /\ ex' = [w.ex EXCEPT
                         !.values = cp.values,
                         !.messages = cp.messages,
                         !.nodes_executed = cp.nodes_executed,
                         !.initial_state =
                             [checkpoint |-> cp,
                              was |-> [values |-> heap[cp.values],
                                       messages |-> heap[cp.messages],
                                       nodes_executed |->
                                           heap[cp.nodes_executed]]]]
    /\ invocations' = invocations + 1
    /\ dispatched' = NoTask
    /\ UNCHANGED <<posts, workerVars, probe, emitter>>

RehydrateNext ==
    \/ MakeCall
    \/ ExecuteStep
    \/ RehydrateCall

RehydrateSpec == Init /\ [][RehydrateNext]_vars

ExecNext ==
    \/ MakeCall
    \/ DispatchTask
    \/ ExecuteStep

ExecSpec == Init /\ [][ExecNext]_vars

----------------------------------------------------------------------------
(* The executor's pure functions, called on their own: the arguments are   *)
(* drawn from bounded sets and `probe` keeps the call and its result (one  *)
(* call per behaviour: the functions keep nothing between calls).          *)

\* Sequences over S of length at most n.
SeqsUpTo(S, n) == UNION {[1..k -> S] : k \in 0..n}

\* Condition strings: every token sequence up to MaxCondTokens.
Conditions ==
    SeqsUpTo({"route", "a", "None", " ", "'", "\"", "=="}, MaxCondTokens)

\* The state values a condition or an edge scan is evaluated against:
\* route absent, or a string.
CondStates ==
    {[message |-> "hi"]}
    \cup {[message |-> "hi", route |-> r] : r \in {"a", "b", "None"}}

\* self._evaluate_condition(condition, state).
EvaluateConditionCall ==
    /\ probe.fn = "none"
    /\ \E c \in Conditions, v \in CondStates :
          probe' = [fn |-> "_evaluate_condition", condition |-> c, vals |-> v,
                    result |-> EvaluateCondition(c, v)]
    /\ UNCHANGED <<posts, workerVars, graphs, heap, ex, invocations, dispatched,
                   emitter>>

\* self._get_next_node("n", state) for a node "n" that is no router, in a
\* graph with the given outgoing edges of "n": their targets are x and y,
\* and each has no condition, a condition on route, or a condition that is
\* no comparison.
GetNextNodeCall ==
    /\ probe.fn = "none"
    /\ \E edges \in SeqsUpTo({CondEdge("n", t, c) :
                                 t \in {"x", "y"},
                                 c \in {NoCondition, <<"route", "==", "a">>,
                                        <<"route", "==", "b">>, <<"route">>}},
                              MaxEdges),
          v \in CondStates :
          probe' = [fn |-> "_get_next_node", edges |-> edges, vals |-> v,
                    result |->
                        GetNextNode(
                            [nodes |-> << Node("n", "llm", NoConfig),
                                          Node("x", "llm", NoConfig),
                                          Node("y", "llm", NoConfig) >>,
                             edges |-> edges, entry_point |-> "n"],
                            "n", v)]
    /\ UNCHANGED <<posts, workerVars, graphs, heap, ex, invocations, dispatched,
                   emitter>>

\* The template loop of _execute_llm_node on a template of up to MaxPieces
\* pieces and a state: the items of the values dict in insertion order,
\* each key once, the values strings that may themselves be a placeholder.
RenderCall ==
    /\ probe.fn = "none"
    /\ \E template \in SeqsUpTo({<<"text", "Echo: ">>, <<"key", "message">>,
                                  <<"key", "note">>}, MaxPieces),
          items \in {q \in SeqsUpTo({"message", "note"}
                                       \X {"hi", "{note}", "{message}"}, 2) :
                        \A i, j \in 1..Len(q) :
                            i # j => q[i][1] # q[j][1]} :
          probe' = [fn |-> "render", template |-> template, items |-> items,
                    result |-> Render(template, items)]
    /\ UNCHANGED <<posts, workerVars, graphs, heap, ex, invocations, dispatched,
                   emitter>>

\* self._execute_tool_node(node, state), twice in a row on the same state,
\* for the tool node of tool_calling: the state holds up to MaxPending
\* pending calls (of a configured tool or of one the node does not know),
\* or no pending_tool_calls key at all.  The probe keeps the events and
\* the state values after the first call and after the second.
ExecuteToolNodeCall ==
    /\ probe.fn = "none"
    /\ \E names \in SeqsUpTo({"search", "calculator", "other"}, MaxPending),
          vals \in {[message |-> "hi"],
                    [message |-> "hi", pending_tool_calls |-> <<>>]} :
          LET pending == [i \in 1..Len(names) |-> [name |-> names[i]]]
              vals0 == IF names = <<>> THEN vals
                       ELSE Put(vals, "pending_tool_calls", pending)
              node == NodeOf(TOOL_CALLING, "execute_tools")
              once == ExecuteToolNode([events |-> <<>>, values |-> 1],
                                      << vals0 >>, node)
              twice == ExecuteToolNode([once.ex EXCEPT !.events = <<>>],
                                       once.heap, node)
          IN probe' = [fn |-> "_execute_tool_node", vals |-> vals0,
                       raised |-> <<once.raised, twice.raised>>,
                       events |-> once.ex.events,
                       result |-> once.heap[1],
                       events2 |-> twice.ex.events,
                       result2 |-> twice.heap[1]]
    /\ UNCHANGED <<posts, workerVars, graphs, heap, ex, invocations, dispatched,
                   emitter>>

PureNext ==
    \/ EvaluateConditionCall
    \/ GetNextNodeCall
    \/ RenderCall
    \/ ExecuteToolNodeCall

PureSpec == Init /\ [][PureNext]_vars

----------------------------------------------------------------------------
(* The EventEmitter with listeners (events.py).  A listener is a callback  *)
(* that raises for the event types in raises_on and returns for the        *)
(* others; what it raises is an instance of Exception (or of a subclass),  *)
(* or of a BaseException that is no Exception (SystemExit,                 *)
(* KeyboardInterrupt, asyncio.CancelledError).                             *)

EmitKinds == {"node.started", "node.completed"}

\* "except Exception: pass" around the call of a listener.
SwallowedBug(exception) == FALSE
Swallowed(exception) == exception = "Exception"

\* EventEmitter.emit: the event is appended, then the listeners are called
\* in list order; an exception that is not swallowed ends the loop and
\* leaves emit.
Emit(em, event) ==
    LET n == Len(em.listeners)
        escaping == {i \in 1..n : /\ event.event \in em.listeners[i].raises_on
                                  /\ ~Swallowed(em.listeners[i].exception)}
        last == IF escaping = {} THEN n
                ELSE CHOOSE i \in escaping : \A j \in escaping : i <= j
    IN [em EXCEPT !.events = Append(@, event),
                  !.calls = @ \o [i \in 1..last |-> <<i, event>>],
                  !.raised = escaping # {}]

\* emitter.add_listener(callback).
AddListener ==
    /\ Len(emitter.listeners) < MaxListeners
    /\ \E r \in SUBSET EmitKinds, x \in {"Exception", "BaseException"} :
          emitter' = [emitter EXCEPT
                        !.listeners =
                            Append(@, [raises_on |-> r, exception |-> x])]
    /\ UNCHANGED <<posts, workerVars, graphs, heap, ex, invocations, dispatched,
                   probe>>

\* emitter.emit(event), by one of the emitter's methods.
EmitEvent ==
    /\ Len(emitter.events) < MaxEmits
    /\ \E k \in EmitKinds :
          emitter' = Emit(emitter, Event(k, "n", NoData))
    /\ UNCHANGED <<posts, workerVars, graphs, heap, ex, invocations, dispatched,
                   probe>>

EmitNext ==
    \/ AddListener
    \/ EmitEvent

EmitSpec == Init /\ [][EmitNext]_vars


----------------------------------------------------------------------------
(* Vocabulary of the properties.                                           *)

\* The dispatch unit of task t has begun / has ended.
Started(t) == taskPc[t] \notin {"none", "spawned"}
Ended(t) == taskPc[t] \in {"done", "key_error", "cancelled"}
InFlight(t) == Started(t) /\ ~Ended(t)

\* execute_run has returned or raised for task t, and how.
ExecutionEnded(t) ==
    taskPc[t] \in {"post_events", "post_terminal", "done", "key_error"}
Outcome(t) == ExecuteRunOutcome(taskGraph[t])

\* The terminal statuses a worker reports, and those among a task's posts.
TerminalKinds == {"success", "interrupted", "error"}
TerminalReports(t) ==
    {i \in 1..Len(reports[t]) : reports[t][i] \in TerminalKinds}

\* The terminal status that matches each way an execution can end.
MatchingTerminal(outcome) ==
    CASE outcome = "success" -> "success"
      [] outcome = "interrupt" -> "interrupted"
      [] outcome \in {"execution_error", "unexpected"} -> "error"

----------------------------------------------------------------------------
(* C1: a poll request is issued only while len(active_runs) is below       *)
(* max_concurrent_runs, and its max_tasks is max_concurrent_runs minus     *)
(* len(active_runs) at the moment of the request (so at least 1, and never *)
(* more than the free capacity).                                           *)
C1_PollWithinCapacity ==
    [][ (pollPc' = "posting" /\ pollPc # "posting") =>
            /\ Cardinality(active_runs) < MaxConcurrentRuns
            /\ max_tasks' = MaxConcurrentRuns - Cardinality(active_runs)
            /\ max_tasks' >= 1 ]_vars

\* A poll in flight that was issued with one run active.
C1_Witness ==
    /\ pollPc = "posting"
    /\ Cardinality(active_runs) = 1
    /\ max_tasks = MaxConcurrentRuns - 1

(* C2: in every reachable state len(active_runs) is at most                *)
(* max_concurrent_runs, whatever the poll responses are.                   *)
C2_ActiveRunsBounded == Cardinality(active_runs) <= MaxConcurrentRuns

(* C3: with distinct run ids, whatever the outcome of a run, its dispatch  *)
(* unit ends by removing the run from active_runs; status is idle when     *)
(* that leaves active_runs empty and running otherwise; once all           *)
(* dispatched runs have ended active_runs is empty and status is idle.     *)
C3_CleanupWhateverOutcome ==
    /\ \A t \in Tasks : Ended(t) =>
            taskPc[t] = "done" /\ taskRun[t] \notin active_runs
    /\ \A t \in Tasks : InFlight(t) => taskRun[t] \in active_runs
    /\ (\E t \in Tasks : Ended(t)) =>
            status = IF active_runs = {} THEN "idle" ELSE "running"
    /\ (Issued # {} /\ \A t \in Issued : Ended(t)) =>
            active_runs = {} /\ status = "idle"

\* Every handed-out run has ended, one of them by an unexpected error and
\* one by an interrupt, and another was still active when the first ended.
C3_Witness ==
    /\ Cardinality(Issued) >= 2
    /\ \A t \in Issued : taskPc[t] = "done"
    /\ \E t \in Issued : Outcome(t) = "unexpected"
    /\ \E t \in Issued : Outcome(t) = "interrupt"
    /\ active_runs = {}
    /\ status = "idle"

(* C4: for every dispatched task the in_progress transition is posted      *)
(* before the executor is invoked, and after the execution has ended       *)
(* exactly one terminal outcome is posted, the one matching how it ended;  *)
(* never two, never none.                                                  *)
C4_OneTerminalReport ==
    \A t \in Tasks :
        /\ Started(t) => Len(reports[t]) >= 1 /\ reports[t][1] = "in_progress"
        /\ ~Started(t) => reports[t] = <<>>
        /\ Cardinality(TerminalReports(t)) <= 1
        /\ taskPc[t] \in {"post_in_progress", "executing", "post_events"} =>
                TerminalReports(t) = {}
        /\ taskPc[t] \in {"post_terminal", "done", "key_error"} =>
                reports[t] = <<"in_progress", MatchingTerminal(Outcome(t))>>

\* Two runs have ended, one interrupted and one failed, each with its own
\* terminal report.
C4_Witness ==
    \E t, u \in Tasks :
        /\ taskPc[t] = "done" /\ Outcome(t) = "interrupt"
        /\ reports[t] = <<"in_progress", "interrupted">>
        /\ taskPc[u] = "done" /\ Outcome(u) = "execution_error"
        /\ reports[u] = <<"in_progress", "error">>

(* C5: in all three outcomes of a dispatched run (success, Interrupted,    *)
(* Failed / unexpected error) the worker sends the full event log of the   *)
(* run's emitter to the control plane.                                     *)
C5_EventLogAlwaysSent ==
    \A t \in Tasks :
        taskPc[t] = "done" => eventsSent[t] = EmitterEvents(taskGraph[t])

(* C6: under every interleaving of run tasks, total_runs is the number of  *)
(* dispatch units begun so far and failed_runs is the number of runs whose *)
(* execution ended Failed or with an unexpected error; success and         *)
(* Interrupted add nothing to failed_runs; no increment is lost or doubled.*)
C6_CountersExact ==
    /\ total_runs = Cardinality({t \in Tasks : Started(t)})
    /\ failed_runs =
         Cardinality({t \in Tasks :
            ExecutionEnded(t) /\
            Outcome(t) \in {"execution_error", "unexpected"}})

\* Three runs begun; one failed, one was interrupted, one succeeded.
C6_Witness ==
    /\ total_runs = 3
    /\ failed_runs = 1
    /\ \E t \in Tasks : ExecutionEnded(t) /\ Outcome(t) = "interrupt"
    /\ \E t \in Tasks : ExecutionEnded(t) /\ Outcome(t) = "success"

(* C7 (as stated): start() completes with registered = true and with both  *)
(* loops launched for every outcome of the registration call.              *)
C7_StartAlwaysCompletes ==
    mainPc \in {"started", "start_failed"} =>
        /\ mainPc = "started"
        /\ registered
        /\ hbPc # "none" /\ pollPc # "none"

(* C7 (amended): start() completes with registered = true and both loops   *)
(* launched when the registration call succeeds, gets a 404 or fails in    *)
(* transport; on any other error status, or a body that cannot be decoded, *)
(* start() raises, registered stays false and no loop is launched.         *)
C7_StartOutcome ==
    /\ mainPc = "started" =>
            /\ regError = "none"
            /\ registered
            /\ hbPc # "none" /\ pollPc # "none"
    /\ mainPc = "start_failed" =>
            /\ regError \in {"http_error", "bad_body"}
            /\ ~registered
            /\ hbPc = "none" /\ pollPc = "none"
    /\ regError # "none" => mainPc \notin {"started", "registering", "init"}
                            /\ hbPc = "none" /\ pollPc = "none"

\* start() has returned: registered, both loops created.
C7_Witness ==
    /\ mainPc = "started"
    /\ registered
    /\ hbPc = "created" /\ pollPc = "created"

(* C8: stop() sends the deregister request only after the heartbeat loop   *)
(* and the poll loop have both terminated and releases the transport only  *)
(* after the deregistration call; no outcome of that call makes stop()     *)
(* fail; once stop() has returned registered is false and neither loop     *)
(* issues another request.                                                 *)
C8_StopOrder ==
    /\ mainPc \in {"deregistering", "closing", "stopped"} =>
            hbPc \in {"none", "done"} /\ pollPc \in {"none", "done"}
    /\ mainPc = "deregistering" => hbPc = "done" /\ pollPc = "done"
    /\ clientClosed => mainPc \in {"closing", "stopped"}
    /\ mainPc \in {"stop_wait_heartbeat", "stop_wait_poll", "deregistering"}
            => ~clientClosed /\ registered
    /\ mainPc # "stop_failed"
    /\ mainPc \in {"closing", "stopped"} => ~registered /\ clientClosed

\* stop() has returned on a worker that had been started.
C8_Witness ==
    /\ mainPc = "stopped"
    /\ hbPc = "done" /\ pollPc = "done"
    /\ ~registered
    /\ clientClosed

C10_HeartbeatSurvives ==
    /\ [](hbPc = "done" => hbCancel)
    /\ (hbPc \in {"sleep_failed", "errsleep"}) ~> (hbPc = "posting" \/ hbCancel)

\* The loop is waiting to retry after an error status, not cancelled.
C10_Witness == hbPc = "errsleep" /\ ~hbCancel

----------------------------------------------------------------------------
(* C11: the two loops go on whatever the runs do.  Neither loop ever ends  *)
(* before stop() was called, and while some run is in flight (it may stay  *)
(* suspended for ever, or other runs may have ended with an error) a       *)
(* sleeping heartbeat loop comes to post its next heartbeat, and a         *)
(* sleeping poll loop with capacity left comes to post its next poll,      *)
(* unless stop() cancels the loop or the capacity is used up first.        *)
C11_LoopsIndependentOfRuns ==
    /\ [](hbPc = "done" => hbCancel)
    /\ [](pollPc = "done" => ~running)
    /\ ((\E t \in Tasks : InFlight(t))
          /\ hbPc \in {"sleep", "sleep_failed", "errsleep"})
         ~> (hbPc = "posting" \/ hbCancel)
    /\ ((\E t \in Tasks : InFlight(t))
          /\ pollPc \in {"sleep", "errsleep"}
          /\ HasCapacity(Cardinality(active_runs)))
         ~> (pollPc = "posting" \/ ~running
               \/ ~HasCapacity(Cardinality(active_runs)))

\* One run has failed, another is inside the executor, and both loops have
\* a request in flight.
C11_Witness ==
    /\ failed_runs > 0
    /\ \E t \in Tasks : taskPc[t] = "executing"
    /\ hbPc = "posting"
    /\ pollPc = "posting"

----------------------------------------------------------------------------
(* Vocabulary of the executor's properties.                                *)

\* The call of execute_run has ended with an outcome of the executor.
RunEnded == ex.status \in {"completed", "failed", "interrupted"}

\* The ExecutionState's history, messages and values as they are now.
NodesExecuted == heap[ex.nodes_executed]
StateValues == heap[ex.values]

\* The Graph object the call runs on.
RunGraph == graphs[ex.graph_id]

\* The run failed because the node id to execute was not a declared node.
FailedNodeNotFound ==
    /\ ex.status = "failed"
    /\ ex.error.message[1] = "Node not found: "

\* The node ids of the node.started events of the log, in order: the nodes
\* the run has visited.
StartedNodeIds ==
    LET started == SelectSeq(ex.events, LAMBDA v : v.event = "node.started")
    IN [i \in 1..Len(started) |-> started[i].node_id]

\* The events of one kind in the log.
EventsOfKind(kind) == SelectSeq(ex.events, LAMBDA v : v.event = kind)

\* A node as _execute_node treats it: an llm node that raises its configured
\* failure, a human node that asks for approval.
MarkedToFail(node) == node.type = "llm" /\ Truthy(node.config, "should_fail")
Interrupting(node) == node.type = "human" /\ Truthy(node.config, "interrupt")

\* The call starts at entry_point and has no override.
FreshPlainCall ==
    /\ ex.resume_from = None
    /\ ex.fail_at_node = None
    /\ ex.interrupt_at_node = None

----------------------------------------------------------------------------
(* C12: the outcome of a run and the nodes it executes depend only on its  *)
(* own graph id, input and overrides: every run that has ended has the     *)
(* outcome and the executed nodes that the same call has when it is made   *)
(* on the graphs as they are defined, whatever runs came before it.        *)
C12_OutcomeOwnInputsOnly ==
    RunEnded =>
        LET alone == RunToEnd(AllGraphs, CallOf(ex)) IN
            /\ ex.status = alone.ex.status
            /\ NodesExecuted = alone.heap[alone.ex.nodes_executed]

----------------------------------------------------------------------------
(* C13: executing runs never modifies a Graph: every node's type and       *)
(* config and every edge stay as they were defined.                        *)
C13_GraphsReadOnly == graphs = AllGraphs

----------------------------------------------------------------------------
(* C14: a graph with a dangling edge endpoint or an undeclared entry_point *)
(* is rejected when it is made, so no run is ever started on such a graph  *)
(* and no run fails because its next node is not declared.                 *)
C14_InvalidGraphRejected ==
    /\ ex.status \in {"running", "completed", "failed", "interrupted"}
          => /\ RunGraph.entry_point \in NodeIds(RunGraph)
             /\ \A i \in 1..Len(RunGraph.edges) :
                   /\ RunGraph.edges[i].source \in NodeIds(RunGraph)
                   /\ RunGraph.edges[i].target \in NodeIds(RunGraph) \cup {END}
    /\ ~FailedNodeNotFound

----------------------------------------------------------------------------
----------------------------------------------------------------------------
(* C16: after a successful fresh run the number of checkpoints, and of     *)
(* checkpoint.created events, is the number of executed nodes that are     *)
(* neither start nor end nodes, and no checkpoint belongs to a start or    *)
(* end node.                                                               *)
C16_CheckpointPerNonStartNode ==
    (ex.status = "completed" /\ ex.resume_from = None) =>
        LET counted == {i \in 1..Len(NodesExecuted) :
                          NodeOf(RunGraph, NodesExecuted[i]).type
                              \notin {"start", "end"}}
        IN /\ Len(ex.checkpoints) = Cardinality(counted)
           /\ Len(EventsOfKind("checkpoint.created")) = Cardinality(counted)
           /\ \A k \in 1..Len(ex.checkpoints) :
                 NodeOf(RunGraph, ex.checkpoints[k].node_id).type
                     \notin {"start", "end"}

----------------------------------------------------------------------------
(* C17: once a checkpoint has been taken, no later step of the run changes *)
(* it: the checkpoint stays in the list at its place, and the values,      *)
(* messages and nodes_executed it holds keep their contents.               *)
C17_CheckpointsIndependent ==
    [][ ex.status = "running" =>
          \A k \in 1..Len(ex.checkpoints) :
              /\ k <= Len(ex'.checkpoints)
              /\ ex'.checkpoints[k] = ex.checkpoints[k]
              /\ heap'[ex.checkpoints[k].values]
                    = heap[ex.checkpoints[k].values]
              /\ heap'[ex.checkpoints[k].messages]
                    = heap[ex.checkpoints[k].messages]
              /\ heap'[ex.checkpoints[k].nodes_executed]
                    = heap[ex.checkpoints[k].nodes_executed] ]_vars

\* Two checkpoints exist and the live state has moved on from the first:
\* its values, messages and history differ from those of checkpoint 1.
C17_Witness ==
    /\ Len(ex.checkpoints) >= 2
    /\ heap[ex.checkpoints[1].values] # StateValues
    /\ heap[ex.checkpoints[1].messages] # heap[ex.messages]
    /\ heap[ex.checkpoints[1].nodes_executed] # NodesExecuted

----------------------------------------------------------------------------
(* C18: after a router node the next node is routes[v] when the state      *)
(* value v under route_key is a key of routes, else the configured         *)
(* default, else the target of the router's first declared outgoing edge.  *)
C18_RouterNext ==
    (/\ ex.status \in {"running", "completed"}
     /\ NodesExecuted # <<>>
     /\ NodeOf(RunGraph, NodesExecuted[Len(NodesExecuted)]).type = "router")
    =>
    LET router == NodeOf(RunGraph, NodesExecuted[Len(NodesExecuted)])
        v == Get(StateValues, Get(router.config, "route_key", "route"), None)
        routes == Get(router.config, "routes", NoData)
    IN ex.current_node_id =
          IF v \in DOMAIN routes THEN routes[v]
          ELSE IF Has(router.config, "default") THEN router.config.default
          ELSE OutgoingEdges(RunGraph, router.id)[1].target

----------------------------------------------------------------------------
(* C19: when the executor comes to a human node with interrupt = true and  *)
(* the state holds no approval, that pass ends the run Interrupted with    *)
(* the node's id, prompt and required fields; the node is not appended to  *)
(* nodes_executed, no checkpoint is made, the log grows by node.started    *)
(* and run.interrupted only (no node.completed), and the interrupted run   *)
(* takes no further step: its record changes only by a new call.           *)
C19_InterruptStopsMidNode ==
    [][ /\ (/\ ex.status = "running"
            /\ ex.current_node_id \in NodeIds(RunGraph)
            /\ Interrupting(NodeOf(ApplyOverrides(RunGraph, ex,
                                                  ex.current_node_id),
                                   ex.current_node_id))
            /\ ~Truthy(StateValues, "_human_approved"))
           =>
           LET node == NodeOf(ApplyOverrides(RunGraph, ex,
                                             ex.current_node_id),
                              ex.current_node_id)
           IN /\ ex'.status = "interrupted"
              /\ ex'.error.node_id = node.id
              /\ ex'.events = ex.events \o
                    << Event("node.started", node.id,
                             [node_type |-> "human"]),
                       Event("run.interrupted", node.id,
                             [prompt |-> Get(node.config, "prompt",
                                             "Human review required"),
                              required_fields |->
                                  Get(node.config, "required_fields",
                                      <<>>)]) >>
              /\ heap'[ex'.nodes_executed] = NodesExecuted
              /\ ex'.checkpoints = ex.checkpoints
        /\ ex.status = "interrupted" =>
              \/ ex' = ex /\ heap' = heap
              \/ invocations' = invocations + 1 ]_vars

\* human_interrupt has been interrupted at human_review after draft, with
\* the prompt of the node in the event.
C19_Witness ==
    /\ ex.status = "interrupted"
    /\ ex.graph_id = "human_interrupt"
    /\ ex.error.node_id = "human_review"
    /\ NodesExecuted = <<"draft">>
    /\ Len(ex.checkpoints) = 1
    /\ ex.events[Len(ex.events)].data.prompt
          = "Please review and approve this draft response"

----------------------------------------------------------------------------
(* C20: in an invocation with resume_from naming an interrupting human     *)
(* node, the approval flag in the input and no override, the first node    *)
(* executed and the first checkpoint are resume_from (the node completes   *)
(* without interrupting), no executed node is one that precedes            *)
(* resume_from in the graph, and the run ends Completed unless a later     *)
(* node is marked to fail, interrupts, or is not declared.                 *)
C20_ResumeAfterApproval ==
    (/\ ex.status \in {"running", "completed", "failed", "interrupted"}
     /\ ex.resume_from \in NodeIds(RunGraph)
     /\ Interrupting(NodeOf(RunGraph, ex.resume_from))
     /\ Truthy(ex.input, "_human_approved")
     /\ ex.fail_at_node = None
     /\ ex.interrupt_at_node = None)
    =>
    /\ NodesExecuted # <<>> =>
          /\ NodesExecuted[1] = ex.resume_from
          /\ ex.checkpoints[1].node_id = ex.resume_from
    /\ \A i \in 1..Len(NodesExecuted) :
          \/ NodesExecuted[i] = ex.resume_from
          \/ ex.resume_from \notin Closure(RunGraph, {NodesExecuted[i]})
    /\ RunEnded =>
          /\ NodesExecuted # <<>>
          /\ ex.status = "completed" =>
                \/ ex.current_node_id = END
                \/ ex.current_node_id \notin NodeIds(RunGraph)
          /\ ex.status # "completed" =>
                \/ FailedNodeNotFound
                \/ /\ ex.error.node_id # ex.resume_from
                   /\ ex.error.node_id \in NodeIds(RunGraph)
                   /\ LET node == NodeOf(RunGraph, ex.error.node_id)
                      IN MarkedToFail(node) \/ Interrupting(node)

\* The resumed run of human_interrupt has completed: human_review, then
\* finalize, and draft was not executed again.
C20_Witness ==
    /\ ex.status = "completed"
    /\ ex.graph_id = "human_interrupt"
    /\ ex.resume_from = "human_review"
    /\ Truthy(ex.input, "_human_approved")
    /\ NodesExecuted = <<"human_review", "finalize">>
    /\ Len(ex.checkpoints) = 2

----------------------------------------------------------------------------
(* C21: when the executor comes to an llm node whose config marks          *)
(* should_fail, that pass ends the run Failed with the configured error    *)
(* message (or the default one) and the node's id; the node is not         *)
(* appended to nodes_executed, nothing is written to the state values or   *)
(* the messages, no checkpoint is made, the log grows by node.started,     *)
(* node.failed and run.failed only, and the failed run takes no further    *)
(* step: its record changes only by a new call.                            *)
C21_FailingNodeFailsRun ==
    [][ /\ (/\ ex.status = "running"
            /\ ex.current_node_id \in NodeIds(RunGraph)
            /\ MarkedToFail(NodeOf(ApplyOverrides(RunGraph, ex,
                                                  ex.current_node_id),
                                   ex.current_node_id)))
           =>
           LET node == NodeOf(ApplyOverrides(RunGraph, ex,
                                             ex.current_node_id),
                              ex.current_node_id)
               message == Get(node.config, "error_message",
                              "Simulated LLM failure")
           IN /\ ex'.status = "failed"
              /\ ex'.error = [message |-> <<message>>, node_id |-> node.id]
              /\ ex'.events = ex.events \o
                    << Event("node.started", node.id, [node_type |-> "llm"]),
                       Event("node.failed", node.id,
                             [error |-> <<message>>]),
                       Event("run.failed", node.id,
                             [error |-> <<message>>]) >>
              /\ heap'[ex'.nodes_executed] = NodesExecuted
              /\ heap'[ex'.values] = StateValues
              /\ heap'[ex'.messages] = heap[ex.messages]
              /\ ex'.checkpoints = ex.checkpoints
        /\ ex.status = "failed" =>
              \/ ex' = ex /\ heap' = heap
              \/ invocations' = invocations + 1 ]_vars

\* failure has failed at fail_here with the message of its config, after
\* start_ok; never_reached was not executed.
C21_Witness ==
    /\ ex.status = "failed"
    /\ ex.graph_id = "failure"
    /\ ex.error = [message |-> <<"Simulated failure: LLM rate limit exceeded">>,
                   node_id |-> "fail_here"]
    /\ NodesExecuted = <<"start_ok">>

----------------------------------------------------------------------------
(* C22: at every point of every run the token summary of the run's log     *)
(* satisfies total = input + output; input and output are the sums of what *)
(* the llm.end events so far carry, which are the token counts of the llm  *)
(* nodes executed so far; no event of another type carries token counts;   *)
(* and each llm.end event carries total = input + output, so that the      *)
(* summary's total is also the sum of the events' totals.                  *)
C22_TokenSummary ==
    ex.status \in {"running", "completed", "failed", "interrupted"} =>
        LET summary == GetTokenSummary(ex.events)
            llm == [i \in 1..Len(NodesExecuted) |->
                       NodeOf(RunGraph, NodesExecuted[i]).type = "llm"]
            tokens(i) == Get(NodeOf(RunGraph, NodesExecuted[i]).config,
                             "simulated_tokens", NoData)
            spent[i \in 0..Len(NodesExecuted)] ==
                IF i = 0 THEN [input |-> 0, output |-> 0]
                ELSE IF ~llm[i] THEN spent[i - 1]
                ELSE [input |-> spent[i - 1].input
                                  + Get(tokens(i), "input", TokenCount),
                      output |-> spent[i - 1].output
                                   + Get(tokens(i), "output",
                                         TokenCount \div 2)]
        IN /\ summary.total = summary.input + summary.output
           /\ summary.input = spent[Len(NodesExecuted)].input
           /\ summary.output = spent[Len(NodesExecuted)].output
           /\ summary.total = SumTokens(ex.events, "total")
           /\ \A i \in 1..Len(ex.events) :
                 IF ex.events[i].event = "llm.end"
                 THEN ex.events[i].data.tokens.total
                        = ex.events[i].data.tokens.input
                          + ex.events[i].data.tokens.output
                 ELSE "tokens" \notin DOMAIN ex.events[i].data

\* multi_step has completed: 50 + 80 + 120 tokens in, 20 + 40 + 100 out.
C22_Witness ==
    /\ ex.status = "completed"
    /\ ex.graph_id = "multi_step"
    /\ GetTokenSummary(ex.events) =
          [input |-> 250, output |-> 160, total |-> 410]

----------------------------------------------------------------------------
(* C23: the event log of a run starts with run.started, which occurs once  *)
(* only; while the run is running the log holds no terminal run event and  *)
(* only grows at its end; when the run has ended the log's last event is   *)
(* the terminal event of the outcome (run.completed, run.failed or         *)
(* run.interrupted), no other event of the log is a terminal event, and    *)
(* nothing is appended to the log afterwards.                              *)
C23_RunEventsBracket ==
    /\ [](ex.status \in {"running", "completed", "failed", "interrupted"} =>
            LET last == Len(ex.events)
                Terminal == {"run.completed", "run.failed", "run.interrupted"}
            IN /\ last >= 1
               /\ ex.events[1].event = "run.started"
               /\ \A i \in 2..last : ex.events[i].event # "run.started"
               /\ \A i \in 1..(last - 1) : ex.events[i].event \notin Terminal
               /\ ex.status = "running" =>
                     ex.events[last].event \notin Terminal
               /\ ex.status = "completed" =>
                     ex.events[last].event = "run.completed"
               /\ ex.status = "failed" =>
                     ex.events[last].event = "run.failed"
               /\ ex.status = "interrupted" =>
                     ex.events[last].event = "run.interrupted")
    /\ [][ /\ ex.status = "running" =>
                /\ Len(ex'.events) > Len(ex.events)
                /\ SubSeq(ex'.events, 1, Len(ex.events)) = ex.events
           /\ RunEnded =>
                \/ ex'.events = ex.events
                \/ invocations' = invocations + 1 ]_vars

\* simple_echo has completed with the seven events of its log, from
\* run.started to run.completed.
C23_Witness ==
    /\ ex.status = "completed"
    /\ ex.graph_id = "simple_echo"
    /\ [i \in 1..Len(ex.events) |-> ex.events[i].event] =
          << "run.started", "node.started", "llm.start", "llm.end",
             "node.completed", "checkpoint.created", "run.completed" >>

----------------------------------------------------------------------------
(* C24: an llm node renders response_template by replacing every {key}     *)
(* whose key is in the state values with the string form of that key's     *)
(* value and leaving the placeholders of absent keys as they are: the      *)
(* rendered text is the template with each such placeholder replaced by    *)
(* its own key's value.                                                    *)
C24_RenderSubstitutes ==
    probe.fn = "render" =>
        LET keys == {probe.items[i][1] : i \in 1..Len(probe.items)}
            value(k) ==
                probe.items[CHOOSE i \in 1..Len(probe.items) :
                                probe.items[i][1] = k][2]
        IN probe.result =
             [i \in 1..Len(probe.template) |->
                 IF /\ probe.template[i][1] = "key"
                    /\ probe.template[i][2] \in keys
                 THEN <<"text", value(probe.template[i][2])>>
                 ELSE probe.template[i]]

-----------------------------------------------------------------------------
(* C25: a listener that raises an Exception never disturbs emission: each  *)
(* emit appends its event to the log, calls every registered listener for  *)
(* it in registration order, whatever the listeners raised for this or for *)
(* earlier events, and returns to its caller without raising.  The case is *)
(* an emit where the listeners that raise for the event raise instances of *)
(* Exception.                                                              *)
C25_RaisingListenerSwallowed ==
    [][ (/\ emitter'.events # emitter.events
         /\ \A i \in 1..Len(emitter.listeners) :
               emitter'.events[Len(emitter'.events)].event
                       \in emitter.listeners[i].raises_on
                   => emitter.listeners[i].exception = "Exception")
        => LET e == emitter'.events[Len(emitter'.events)] IN
           /\ emitter'.events = Append(emitter.events, e)
           /\ emitter'.calls =
                 emitter.calls \o [i \in 1..Len(emitter.listeners) |-> <<i, e>>]
           /\ ~emitter'.raised
           /\ emitter'.listeners = emitter.listeners ]_vars

\* The first listener raised an Exception for the first event; the second
\* listener was called for that event after it, and both were called for
\* the next event, in this order.
C25_Witness ==
    /\ Len(emitter.listeners) = 2
    /\ Len(emitter.events) >= 2
    /\ emitter.events[1].event \in emitter.listeners[1].raises_on
    /\ emitter.listeners[1].exception = "Exception"
    /\ emitter.listeners[2].exception = "Exception"
    /\ Len(emitter.calls) >= 4
    /\ SubSeq(emitter.calls, 1, 4) =
          << <<1, emitter.events[1]>>, <<2, emitter.events[1]>>,
             <<1, emitter.events[2]>>, <<2, emitter.events[2]>> >>
    /\ ~emitter.raised

\* C25 as stated, for a listener that raises anything at all.
C25_AnyRaiseSwallowed ==
    [][ emitter'.events # emitter.events
        => LET e == emitter'.events[Len(emitter'.events)] IN
           /\ emitter'.calls =
                 emitter.calls \o [i \in 1..Len(emitter.listeners) |-> <<i, e>>]
           /\ ~emitter'.raised ]_vars

-----------------------------------------------------------------------------
(* C26: a task that the worker dispatches to resume an interrupted run     *)
(* (it carries resume_from and the approval input) starts execution at the *)
(* resume_from node, not at the entry point of the graph: the first node   *)
(* the run executes is resume_from, and the nodes that come before it in   *)
(* the graph are not executed again.                                       *)
C26_DispatchedResumeStartsAtResumeFrom ==
    (dispatched.resume_from # None /\ NodesExecuted # <<>>)
        => /\ NodesExecuted[1] = dispatched.resume_from
           /\ \A i \in 1..Len(NodesExecuted) :
                 NodesExecuted[i] # graphs[dispatched.graph_id].entry_point

-----------------------------------------------------------------------------
(* C27: within one run the node steps are sequential and bracketed.  Every *)
(* node.started of a node n is followed, before any other node.started, by *)
(* exactly one of node.completed(n) then checkpoint.created(n), or         *)
(* node.failed(n), or run.interrupted(n); between the two the log holds    *)
(* only llm and tool events of n.  The llm.start / llm.end and tool.start  *)
(* / tool.end events of n occur only between node.started(n) and           *)
(* node.completed(n), each start directly before its matching end.         *)
C27_NodeStepsBracketed ==
    LET ev == ex.events
        n == Len(ev)
        Inner == {"llm.start", "llm.end", "tool.start", "tool.end"}
        Closers == {"node.completed", "node.failed", "run.interrupted"}
        Bracket(i, j) ==
            /\ i < j
            /\ ev[i].event = "node.started"
            /\ ev[j].event \in Closers
            /\ ev[j].node_id = ev[i].node_id
            /\ \A k \in (i + 1)..(j - 1) :
                  ev[k].event \in Inner /\ ev[k].node_id = ev[i].node_id
        Matching(a, b) ==
            /\ ev[a].node_id = ev[b].node_id
            /\ \/ ev[a].event = "llm.start" /\ ev[b].event = "llm.end"
               \/ /\ ev[a].event = "tool.start"
                  /\ ev[b].event = "tool.end"
                  /\ ev[a].data.tool = ev[b].data.tool
    IN /\ \A i \in 1..n :
            ev[i].event = "node.started" =>
                \E j \in (i + 1)..n :
                    /\ Bracket(i, j)
                    /\ ev[j].event = "node.completed" =>
                          /\ j < n
                          /\ ev[j + 1].event = "checkpoint.created"
                          /\ ev[j + 1].node_id = ev[i].node_id
       /\ \A j \in 1..n :
            ev[j].event \in Closers => \E i \in 1..(j - 1) : Bracket(i, j)
       /\ \A k \in 1..n :
            ev[k].event = "checkpoint.created" =>
                /\ k > 1
                /\ ev[k - 1].event = "node.completed"
                /\ ev[k - 1].node_id = ev[k].node_id
       /\ \A k \in 1..n :
            ev[k].event \in Inner =>
                /\ \E i \in 1..(k - 1), j \in (k + 1)..n :
                      Bracket(i, j) /\ ev[j].event = "node.completed"
                /\ ev[k].event \in {"llm.start", "tool.start"} =>
                      k < n /\ Matching(k, k + 1)
                /\ ev[k].event \in {"llm.end", "tool.end"} =>
                      k > 1 /\ Matching(k - 1, k)

\* tool_calling has completed: its log holds the brackets of an llm node and
\* of a tool node that made a tool call.
C27_Witness ==
    /\ ex.status = "completed"
    /\ FreshPlainCall
    /\ EventsOfKind("llm.start") # <<>>
    /\ EventsOfKind("tool.start") # <<>>
    /\ Len(EventsOfKind("checkpoint.created")) >= 2

-----------------------------------------------------------------------------
(* C28: after a node that is no router, the next node is the target of the *)
(* first outgoing edge, in declaration order, that has no condition or     *)
(* whose condition evaluates true; when every outgoing edge has a          *)
(* condition and none is true, it is the target of the first declared      *)
(* outgoing edge; when the node has no outgoing edge, it is the terminal   *)
(* sentinel.                                                               *)
C28_NextAfterPlainNode ==
    probe.fn = "_get_next_node" =>
        LET edges == probe.edges
            Wins(i) ==
                \/ edges[i].condition = NoCondition
                \/ EvaluateCondition(edges[i].condition, probe.vals)
        IN /\ edges = <<>> => probe.result = END
           /\ \A i \in 1..Len(edges) :
                 (Wins(i) /\ \A j \in 1..(i - 1) : ~Wins(j))
                     => probe.result = edges[i].target
           /\ (edges # <<>> /\ \A i \in 1..Len(edges) : ~Wins(i))
                 => probe.result = edges[1].target

\* The first edge's condition is false and the second edge, to another
\* node, has a condition that is true: the second edge's target is next.
C28_Witness ==
    /\ probe.fn = "_get_next_node"
    /\ Len(probe.edges) = 2
    /\ probe.edges[1].condition = <<"route", "==", "a">>
    /\ probe.edges[2].condition = <<"route", "==", "b">>
    /\ probe.edges[1].target = "x"
    /\ probe.edges[2].target = "y"
    /\ "route" \in DOMAIN probe.vals
    /\ probe.vals["route"] = "b"
    /\ probe.result = "y"

-----------------------------------------------------------------------------
(* C29: an edge condition "key == literal" evaluates true exactly when the *)
(* state holds a value under key whose string form equals the literal      *)
(* (blanks and surrounding quotes stripped), and false when key is absent  *)
(* from the state; a condition that is not a single == comparison          *)
(* evaluates false.                                                        *)
C29_ConditionTrueIffValueEqualsLiteral ==
    probe.fn = "_evaluate_condition" =>
        LET c == probe.condition
            eqs == {i \in 1..Len(c) : c[i] = "=="}
            p == CHOOSE i \in eqs : TRUE
            key == Strip(SubSeq(c, 1, p - 1), {" "})
            literal == Strip(Strip(SubSeq(c, p + 1, Len(c)), {" "}),
                             {"'", "\""})
        IN probe.result =
             (/\ Cardinality(eqs) = 1
              /\ Len(key) = 1
              /\ key[1] \in DOMAIN probe.vals
              /\ << probe.vals[key[1]] >> = literal)

-----------------------------------------------------------------------------
(* C30: an llm node configured with loop_count = N is repeated by the      *)
(* executor: in a run that has gone past it, it was executed N times in a  *)
(* row before its successor, the iteration counter in the state having     *)
(* advanced by one per repetition, up to N - 1.                            *)
C30_LoopNodeRepeated ==
    ex.status \in {"running", "completed", "failed", "interrupted"} =>
    \A i \in 1..(Len(NodesExecuted) - 1) :
        LET node == NodeOf(RunGraph, NodesExecuted[i])
            times == Cardinality({j \in 1..Len(NodesExecuted) :
                                     NodesExecuted[j] = node.id})
        IN (/\ NodesExecuted[i] \in NodeIds(RunGraph)
            /\ node.type = "llm"
            /\ Has(node.config, "loop_count")
            /\ ~Has(node.config, "should_fail"))
           => /\ times = node.config.loop_count
              /\ Get(StateValues, "_loop_iteration", 0)
                    = node.config.loop_count - 1

-----------------------------------------------------------------------------
(* C31: a tool node consumes exactly the tool calls pending in the state   *)
(* when it starts: for each pending call, in order, it emits one           *)
(* tool.start followed by one tool.end and appends one result; when it     *)
(* returns, tool_results has one entry per consumed call in the same       *)
(* order and pending_tool_calls is empty, so a tool node that runs after   *)
(* it executes none of these calls again.                                  *)
C31_ToolNodeConsumesPending ==
    probe.fn = "_execute_tool_node" =>
        LET pending == Get(probe.vals, "pending_tool_calls", <<>>)
            n == Len(pending)
        IN /\ probe.raised = <<"none", "none">>
           /\ Len(probe.events) = 2 * n
           /\ \A i \in 1..n :
                 /\ probe.events[2 * i - 1].event = "tool.start"
                 /\ probe.events[2 * i].event = "tool.end"
                 /\ probe.events[2 * i - 1].data.tool = pending[i].name
                 /\ probe.events[2 * i].data.tool = pending[i].name
                 /\ probe.events[2 * i - 1].node_id = "execute_tools"
                 /\ probe.events[2 * i].node_id = "execute_tools"
           /\ Len(probe.result["tool_results"]) = n
           /\ \A i \in 1..n :
                 probe.result["tool_results"][i].tool = pending[i].name
           /\ probe.result["pending_tool_calls"] = <<>>
           /\ probe.events2 = <<>>
           /\ probe.result2["tool_results"] = <<>>
           /\ probe.result2["pending_tool_calls"] = <<>>
           /\ \A k \in DOMAIN probe.vals \ {"pending_tool_calls", "tool_results"} :
                 probe.result[k] = probe.vals[k]

\* Two calls were pending, of different tools: four events in the calls'
\* order and two results.
C31_Witness ==
    /\ probe.fn = "_execute_tool_node"
    /\ "pending_tool_calls" \in DOMAIN probe.vals
    /\ Len(probe.vals["pending_tool_calls"]) = 2
    /\ probe.vals["pending_tool_calls"][1].name = "calculator"
    /\ probe.vals["pending_tool_calls"][2].name = "search"
    /\ Len(probe.events) = 4
    /\ probe.result["tool_results"][1].tool = "calculator"
    /\ probe.result["tool_results"][2].tool = "search"

-----------------------------------------------------------------------------
(* C32: within one executor invocation the checkpoint log is append-only   *)
(* and monotonic: the k-th checkpoint's node_id is the k-th node completed *)
(* in the invocation, a step keeps the checkpoints there are in their      *)
(* places and adds at most one at the end, and each checkpoint's           *)
(* nodes_executed is a strict prefix of the next checkpoint's.             *)
C32_CheckpointLogMonotonic ==
    /\ [](ex.status \in {"running", "completed", "failed", "interrupted"} =>
            LET cps == ex.checkpoints
                hist(k) == heap[cps[k].nodes_executed]
            IN /\ Len(cps) = Len(NodesExecuted)
               /\ \A k \in 1..Len(cps) :
                     /\ cps[k].node_id = NodesExecuted[k]
                     /\ hist(k) = SubSeq(NodesExecuted, 1, k)
               /\ \A k \in 1..(Len(cps) - 1) :
                     /\ Len(hist(k)) < Len(hist(k + 1))
                     /\ hist(k) = SubSeq(hist(k + 1), 1, Len(hist(k))))
    /\ [][ ex.status = "running" =>
             /\ Len(ex'.checkpoints) \in
                   {Len(ex.checkpoints), Len(ex.checkpoints) + 1}
             /\ SubSeq(ex'.checkpoints, 1, Len(ex.checkpoints))
                   = ex.checkpoints ]_vars

\* multi_step has completed: three checkpoints, one per node, in order.
C32_Witness ==
    /\ ex.status = "completed"
    /\ Len(ex.checkpoints) = 3
    /\ [k \in 1..3 |-> ex.checkpoints[k].node_id]
          = <<"classify", "process", "respond">>
    /\ heap[ex.checkpoints[2].nodes_executed] = <<"classify", "process">>

-----------------------------------------------------------------------------
(* C33: rehydrating a run from a prior checkpoint, passed as initial_state *)
(* of the resuming call, leaves that checkpoint unchanged: its values,     *)
(* messages and nodes_executed are the same during and after the resumed   *)
(* execution as they were before it.                                       *)
C33_RehydrationKeepsCheckpoint ==
    DOMAIN ex.initial_state # {} =>
        LET cp == ex.initial_state.checkpoint
            was == ex.initial_state.was
        IN /\ heap[cp.values] = was.values
           /\ heap[cp.messages] = was.messages
           /\ heap[cp.nodes_executed] = was.nodes_executed

-----------------------------------------------------------------------------
(* C34: whenever the node id to execute next is neither a declared node    *)
(* nor the terminal sentinel, the run ends failed: the step emits          *)
(* run.failed and no node.started, and nodes_executed and checkpoints keep *)
(* the values they had after the last completed node.                      *)
C34_UnknownNodeFailsRun ==
    [][ (/\ ex.status = "running"
         /\ ex.current_node_id \notin NodeIds(RunGraph) \cup {END})
        => /\ ex'.status = "failed"
           /\ ex'.events =
                 Append(ex.events, ex'.events[Len(ex'.events)])
           /\ ex'.events[Len(ex'.events)].event = "run.failed"
           /\ heap'[ex'.nodes_executed] = heap[ex.nodes_executed]
           /\ ex'.checkpoints = ex.checkpoints ]_vars

-----------------------------------------------------------------------------
(* C35: a failed status or event post (in_progress, event log or terminal  *)
(* outcome; transport error or error response) is swallowed where it is    *)
(* made: after the in_progress post the executor is invoked whatever the   *)
(* post came to, and the counters, active_runs and status are those that   *)
(* the executions' outcomes alone determine, as when every post succeeds.  *)
C35_PostFailuresSwallowed ==
    /\ \A t \in Tasks :
          taskPc[t] \notin {"none", "spawned", "post_in_progress"}
              => taskGraph[t] # "none"
    /\ \A t \in Tasks :
          taskPc[t] \in {"post_terminal", "done"}
              => reports[t] = <<"in_progress", TerminalReport(Outcome(t))>>
    /\ total_runs = Cardinality({t \in Tasks : Started(t)})
    /\ failed_runs =
          Cardinality({t \in Tasks : /\ taskGraph[t] # "none"
                                     /\ taskPc[t] # "executing"
                                     /\ CountsAsFailure(Outcome(t))})
    /\ active_runs =
          {taskRun[t] : t \in {u \in Tasks : Started(u) /\ taskPc[u] # "done"}}
    /\ status = IF active_runs = {} THEN "idle" ELSE "running"

\* A successful run is over, every post made so far failed (one at least
\* in transport and one at least with an error status), and the worker is
\* idle with nothing counted as failed.
C35_Witness ==
    /\ posts = {"http_error", "transport_error"}
    /\ \E t \in Tasks :
          /\ taskPc[t] = "done"
          /\ taskGraph[t] = "simple_echo"
          /\ reports[t] = <<"in_progress", "success">>
          /\ eventsSent[t] # <<>>
    /\ active_runs = {}
    /\ status = "idle"
    /\ failed_runs = 0

-----------------------------------------------------------------------------
(* C36: every task a poll returned is in active_runs before the worker     *)
(* computes the capacity of its next poll request: whenever a poll request *)
(* is issued, each task handed out earlier whose dispatch unit has not     *)
(* ended is in active_runs, and max_tasks is max_concurrent_runs minus the *)
(* number of those tasks.                                                  *)
C36_CapacityCountsHandedOutTasks ==
    [][ (pollPc # "posting" /\ pollPc' = "posting")
        => LET unfinished == {t \in Tasks : taskPc[t] # "none" /\ ~Ended(t)}
           IN /\ \A t \in unfinished : taskRun[t] \in active_runs
              /\ max_tasks' = MaxConcurrentRuns - Cardinality(unfinished) ]_vars

\* A poll request in flight whose capacity was reduced by a task of an
\* earlier poll that is still executing.
C36_Witness ==
    /\ pollPc = "posting"
    /\ max_tasks = MaxConcurrentRuns - 1
    /\ \E t \in Tasks : taskPc[t] = "executing"
    /\ Cardinality(active_runs) = 1

-----------------------------------------------------------------------------
(* C37: when the forced-failure setting of a run names a node the run      *)
(* reaches, the run fails at that node whatever the node's type: the node  *)
(* is never added to nodes_executed, and once its node.started is in the   *)
(* log the run has failed with it as the offending node.                   *)
C37_ForcedFailureAnyType ==
    (ex.status \in {"running", "completed", "failed", "interrupted"}
     /\ ex.fail_at_node # None)
    => LET executed == heap[ex.nodes_executed]
           reached == \E i \in 1..Len(ex.events) :
                         /\ ex.events[i].event = "node.started"
                         /\ ex.events[i].node_id = ex.fail_at_node
       IN /\ \A i \in 1..Len(executed) : executed[i] # ex.fail_at_node
          /\ reached => /\ ex.status = "failed"
                        /\ ex.error.node_id = ex.fail_at_node

-----------------------------------------------------------------------------
(* C38: stop() does not take the transport away from runs still active:    *)
(* the client is closed only when no run is in flight, and every terminal  *)
(* outcome a run task posts is posted on a client that is still open.      *)
C38_TransportKeptForActiveRuns ==
    /\ [](clientClosed => \A t \in Tasks : ~InFlight(t))
    /\ [][ \A t \in Tasks :
              (/\ Len(reports'[t]) = Len(reports[t]) + 1
               /\ reports'[t][Len(reports'[t])] \in TerminalKinds)
              => ~clientClosed ]_vars

-----------------------------------------------------------------------------
-----------------------------------------------------------------------------
(* C40: cleanup is robust to duplicate delivery: when a run_id is handed   *)
(* out again while its first task is still active, no dispatch unit ends   *)
(* with an unhandled error, the run is in active_runs and status is        *)
(* "running" for as long as one of its units is in flight, and once every  *)
(* unit has ended active_runs is empty and status is "idle".               *)
C40_DuplicateDeliveryRobust ==
    /\ \A t \in Tasks : taskPc[t] # "key_error"
    /\ \A t \in Tasks :
          InFlight(t) => taskRun[t] \in active_runs /\ status = "running"
    /\ (\A t \in Issued : Ended(t))
          => active_runs = {} /\ status = "idle"

====
